---- MODULE Spec2Model ----
(***************************************************************************)
(* Verification model of the OBR macroeconomic model solvers:              *)
(*   - obr_macro/variables.py, solver.py, model.py   (direct mode)         *)
(*   - obr_macro/full_solver.py                      (full-system mode)    *)
(*   - obr_macro/reform_analysis.py run_reform       (baseline vs shocked) *)
(*   - obr_macro/transpiler.py                       (EViews to Python)    *)
(* Spec is the solvers, StoreSpec the Variables store on its own, and      *)
(* TranspileSpec the transpiler on its own.                                *)
(*                                                                         *)
(* Numbers.  The program computes on float64.  The model computes on the   *)
(* integers, where every operation used here (+, -, *, comparison) is      *)
(* exact, plus NaN and the two infinities.  Tolerances and relative        *)
(* changes are exact fractions <<num, den>> compared by cross              *)
(* multiplication.                                                         *)
(***************************************************************************)
EXTENDS Integers, Sequences, FiniteSets, TLC

(***************************************************************************)
(* Bounds of the exploration.                                              *)
(***************************************************************************)
NumPeriods == 3
MaxIter == 2
MaxOps == 2
\* The loops of the solvers and of the transpiler are evaluated in blocks of
\* this many iterations.
BlockSize == 10
\* The deepest explicit lag VAR(-n) of a transpiled expression.
MaxLag == 2
\* The largest finite float64 value on the integer grid: a result beyond it
\* overflows to an infinity.
MaxFloat == 1000

(***************************************************************************)
(* Program constants.                                                      *)
(***************************************************************************)
DefaultMaxIter == 100
InitPasses == 5
FirstForecast == 1

\* The modelled variables.  The variables _initialize_historical gives
\* heuristic defaults to (BPA, GGVA, TCPRO, ...) are not among them.
Vars == {"CGG", "GDPM", "DINV"}
Periods == 0 .. (NumPeriods - 1)

(***************************************************************************)
(* float64 values: an integer, NaN, or an infinity (Inf and -Inf).         *)
(***************************************************************************)
NaN == -999999
Inf == 888888
isnan(x) == x = NaN
isinf(x) == x = Inf \/ x = -Inf
isfinite(x) == ~isnan(x) /\ ~isinf(x)
Abs(x) == IF x < 0 THEN -x ELSE x
\* The float64 result of an exact finite result x.
Overflow(x) ==
    IF x > MaxFloat THEN Inf ELSE IF x < -MaxFloat THEN -Inf ELSE x
Add(a, b) ==
    IF isnan(a) \/ isnan(b) THEN NaN
    ELSE IF isinf(a) THEN (IF isinf(b) /\ b # a THEN NaN ELSE a)
    ELSE IF isinf(b) THEN b
    ELSE Overflow(a + b)
Sub(a, b) == IF isnan(a) \/ isnan(b) THEN NaN ELSE Add(a, -b)
Mul(a, b) ==
    IF isnan(a) \/ isnan(b) THEN NaN
    ELSE IF isinf(a) \/ isinf(b)
    THEN (IF a = 0 \/ b = 0 THEN NaN
          ELSE IF (a > 0) = (b > 0) THEN Inf ELSE -Inf)
    ELSE Overflow(a * b)
\* np.exp on the integer grid: the base-2 exponential stands for e^r
\* (exp(0) = 1, exp(a + b) = exp(a) * exp(b), strictly increasing).
Exp(r) ==
    IF isnan(r) THEN NaN
    ELSE IF r = Inf THEN Inf
    ELSE IF r = -Inf THEN 0
    ELSE IF r > 17 THEN Inf
    ELSE Overflow(2 ^ r)

(***************************************************************************)
(* Exact fractions for tolerances and relative changes (den > 0).          *)
(***************************************************************************)
\* a < b, that is a[1] * b[2] < b[1] * a[2], without the large product.
FracLess(a, b) ==
    IF a[1] = 0 THEN b[1] > 0
    ELSE b[2] <= ((b[1] * a[2]) - 1) \div a[1]
FracMax(a, b) == IF FracLess(a, b) THEN b ELSE a
\* An infinite change, as a fraction.
Unbounded == <<1, 0>>
DefaultTol == <<1, 1000000>>

(***************************************************************************)
(* Parsed equations (transpiler.ParsedEquation).  lhs keeps what the       *)
(* solver reads off the LHS text: its form and its variable.  rhs stands   *)
(* for python_expr, evaluated by Eval below.                               *)
(***************************************************************************)
Bare(x, rhs) == [form |-> "bare", var |-> x, rhs |-> rhs]
Ratio(x, rhs) == [form |-> "ratio", var |-> x, rhs |-> rhs]
Dlog(x, rhs) == [form |-> "dlog", var |-> x, rhs |-> rhs]
Diff(x, rhs) == [form |-> "d", var |-> x, rhs |-> rhs]
Const(c) == [op |-> "const", x |-> "CGG", y |-> "CGG", c |-> c]
Cur(x, c) == [op |-> "var", x |-> x, y |-> x, c |-> c]
Lag(x, c) == [op |-> "lag", x |-> x, y |-> x, c |-> c]
Sum(x, y) == [op |-> "sum", x |-> x, y |-> y, c |-> 0]
Unknown == [op |-> "unknown", x |-> "CGG", y |-> "CGG", c |-> 0]

_extract_lhs_var(eq) == eq.var

\* FullOBRSolver._get
_get(data, columns, x, t) ==
    IF x \notin columns \/ t < 0 \/ t >= NumPeriods THEN NaN ELSE data[x][t]

\* FullOBRSolver._lag
_lag(data, columns, x, lag, t) == _get(data, columns, x, t - lag)

\* eval(eq.python_expr, ctx): ok = FALSE when the evaluation raises
\* (v['X'] with X not a key of v, or a name the context does not define).
Eval(rhs, v, vkeys, data, columns, t) ==
    CASE rhs.op = "const" -> [ok |-> TRUE, val |-> rhs.c]
      [] rhs.op = "var" ->
           IF rhs.x \in vkeys
           THEN [ok |-> TRUE, val |-> Add(v[rhs.x], rhs.c)]
           ELSE [ok |-> FALSE, val |-> NaN]
      [] rhs.op = "lag" ->
           [ok |-> TRUE, val |-> Add(_lag(data, columns, rhs.x, 1, t), rhs.c)]
      [] rhs.op = "sum" ->
           IF rhs.x \in vkeys /\ rhs.y \in vkeys
           THEN [ok |-> TRUE, val |-> Add(v[rhs.x], v[rhs.y])]
           ELSE [ok |-> FALSE, val |-> NaN]
      [] OTHER -> [ok |-> FALSE, val |-> NaN]

(***************************************************************************)
(* FullOBRSolver.solve_period (full_solver.py 446-509).                    *)
(***************************************************************************)
\* residuals.get((var, t), 0)
ResidualGet(residuals, x, t) ==
    IF <<x, t>> \in DOMAIN residuals THEN residuals[<<x, t>>] ELSE 0

\* A variant that treats the ratio form as a difference.
NewValueRatioAsDiff(form, lag_val, rhs_val) ==
    CASE form = "ratio" -> IF isfinite(lag_val) THEN Add(lag_val, rhs_val) ELSE NaN
      [] form = "dlog" -> IF isfinite(lag_val) THEN Mul(lag_val, Exp(rhs_val)) ELSE NaN
      [] form = "d" -> IF isfinite(lag_val) THEN Add(lag_val, rhs_val) ELSE NaN
      [] OTHER -> rhs_val

\* The new value by equation form (lines 476-486).
NewValue(form, lag_val, rhs_val) ==
    CASE form = "ratio" -> IF isfinite(lag_val) THEN Mul(lag_val, rhs_val) ELSE NaN
      [] form = "dlog" -> IF isfinite(lag_val) THEN Mul(lag_val, Exp(rhs_val)) ELSE NaN
      [] form = "d" -> IF isfinite(lag_val) THEN Add(lag_val, rhs_val) ELSE NaN
      [] OTHER -> rhs_val

\* A variant that adds the residual in shock mode too.
WithResidualAlways(new_val, residuals, shock, x, t) ==
    Add(new_val, ResidualGet(residuals, x, t))

\* Residual adjustment (lines 491-493): only when not in shock mode.
WithResidual(new_val, residuals, shock, x, t) ==
    IF ~shock THEN Add(new_val, ResidualGet(residuals, x, t)) ELSE new_val

\* abs(old_val) > 1e-10 on the integer grid
NonNegligible(old_val) == Abs(old_val) >= 1

\* A variant that measures the absolute change.
MaxChangeAbsolute(mc, old_val, new_val) ==
    IF isfinite(old_val) /\ NonNegligible(old_val)
    THEN FracMax(mc, IF isfinite(Sub(new_val, old_val))
                     THEN <<Abs(new_val - old_val), 1>>
                     ELSE Unbounded)
    ELSE mc

\* max_change after a committed update (lines 500-502).
MaxChange(mc, old_val, new_val) ==
    IF isfinite(old_val) /\ NonNegligible(old_val)
    THEN FracMax(mc, IF isfinite(Sub(new_val, old_val))
                     THEN <<Abs(new_val - old_val), Abs(old_val)>>
                     ELSE Unbounded)
    ELSE mc

\* One pass state: the DataFrame, the context dict v (values and keys),
\* max_change, the record of the updates the pass committed, and the record
\* of the equations the pass went through.
PassStart(data, columns, t) ==
    [data |-> data,
     v |-> [x \in DOMAIN data |-> IF x \in columns THEN data[x][t] ELSE NaN],
     vkeys |-> columns,
     mc |-> <<0, 1>>,
     log |-> <<>>,
     trace |-> <<>>]

\* The body of "for eq in self.equations" (lines 469-504) for one equation.
\* A variant that stores the new value one period early.
CommitEarly(st, eq, x, columns, t, old_val, rhs_val, lag_val, new_val) ==
    [data |-> IF x \in columns /\ t >= 1
              THEN [st.data EXCEPT ![x][t - 1] = new_val]
              ELSE st.data,
     v |-> [st.v EXCEPT ![x] = new_val],
     vkeys |-> st.vkeys \cup {x},
     mc |-> MaxChange(st.mc, old_val, new_val),
     log |-> Append(st.log,
               [var |-> x, form |-> eq.form, rhs |-> rhs_val,
                lag |-> lag_val, old |-> old_val, new |-> new_val,
                stored |-> x \in columns]),
     trace |-> st.trace]

\* Lines 495-502: the update of the DataFrame and of v, and max_change.
Commit(st, eq, x, columns, t, old_val, rhs_val, lag_val, new_val) ==
    [data |-> IF x \in columns
              THEN [st.data EXCEPT ![x][t] = new_val]
              ELSE st.data,
     v |-> [st.v EXCEPT ![x] = new_val],
     vkeys |-> st.vkeys \cup {x},
     mc |-> MaxChange(st.mc, old_val, new_val),
     log |-> Append(st.log,
               [var |-> x, form |-> eq.form, rhs |-> rhs_val,
                lag |-> lag_val, old |-> old_val, new |-> new_val,
                stored |-> x \in columns]),
     trace |-> st.trace]

\* Lines 488-493: nothing is stored unless the new value is finite.
Update(st, eq, x, columns, residuals, shock, t, old_val, r, lag_val, new0) ==
    IF ~r.ok \/ ~isfinite(new0) THEN st
    ELSE Commit(st, eq, x, columns, t, old_val, r.val, lag_val,
                WithResidual(new0, residuals, shock, x, t))

Evaluated(st, eq, x, columns, residuals, shock, t, r, lag_val) ==
    Update(st, eq, x, columns, residuals, shock, t,
           IF x \in st.vkeys THEN st.v[x] ELSE NaN,
           r, lag_val, NewValue(eq.form, lag_val, r.val))

\* The values of the context dict, for the record.
Copy(v) == [x \in Vars |-> v[x]]

\* The record of one iteration of the equation loop: the equation, whether
\* its evaluation raised, and the pass state it found and left.
Traced(st, eq, r, left) ==
    [data |-> left.data, v |-> left.v, vkeys |-> left.vkeys, mc |-> left.mc,
     log |-> left.log,
     trace |-> Append(st.trace,
                 [eq |-> eq, ok |-> r.ok,
                  v |-> Copy(st.v), vkeys |-> st.vkeys, data |-> st.data,
                  mc |-> st.mc,
                  v_left |-> Copy(left.v), vkeys_left |-> left.vkeys,
                  data_left |-> left.data, mc_left |-> left.mc])]

\* try: ... except Exception: pass (lines 470-504) around one equation.
TryEquation(st, eq, x, columns, residuals, shock, t, r, lag_val) ==
    Traced(st, eq, r,
           Evaluated(st, eq, x, columns, residuals, shock, t, r, lag_val))

EqStep(st, eq, columns, residuals, shock, t) ==
    TryEquation(st, eq, _extract_lhs_var(eq), columns, residuals, shock, t,
                Eval(eq.rhs, st.v, st.vkeys, st.data, columns, t),
                _lag(st.data, columns, _extract_lhs_var(eq), 1, t))

\* A variant of the loop that an exception ends.
RECURSIVE RunEquationsUntilRaise(_, _, _, _, _, _, _)
RunEquationsUntilRaise(st, equations, i, columns, residuals, shock, t) ==
    IF i > Len(equations) THEN st
    ELSE IF Len(st.trace) > 0 /\ ~st.trace[Len(st.trace)].ok THEN st
    ELSE RunEquationsUntilRaise(
             EqStep(st, equations[i], columns, residuals, shock, t),
             equations, i + 1, columns, residuals, shock, t)

\* for eq in self.equations (line 468)
RECURSIVE RunEquations(_, _, _, _, _, _, _)
RunEquations(st, equations, i, columns, residuals, shock, t) ==
    IF i > Len(equations) THEN st
    ELSE RunEquations(EqStep(st, equations[i], columns, residuals, shock, t),
                      equations, i + 1, columns, residuals, shock, t)

\* The convergence test and the value returned on convergence (506-507).
\* A variant that also accepts a metric equal to the tolerance.
ConvergedAtTol(mc, tol) == ~FracLess(tol, mc)
Converged(mc, tol) == FracLess(mc, tol)
\* A variant that reports the zero-based loop index.
IterReturnZeroBased(iteration) == iteration
IterReturn(iteration) == iteration + 1

\* One iteration of "for iteration in range(max_iter)" (lines 451-507) on
\* the loop state ls: the pass, then the convergence test.  metrics, log and
\* trace record what the passes computed: the max_change of every pass so
\* far, the updates of the latest pass, and the equations every pass so far
\* went through.
PassEnd(ls, st, tol) ==
    [data |-> st.data,
     iteration |-> ls.iteration + 1,
     done |-> Converged(st.mc, tol),
     ret |-> IF Converged(st.mc, tol) THEN IterReturn(ls.iteration) ELSE 0,
     metrics |-> Append(ls.metrics, st.mc),
     log |-> st.log,
     trace |-> Append(ls.trace, st.trace)]
PassOnce(ls, columns, equations, residuals, shock, t, tol) ==
    PassEnd(ls, RunEquations(PassStart(ls.data, columns, t), equations, 1,
                             columns, residuals, shock, t), tol)

\* Up to n iterations of the loop, stopping at the first return.
RECURSIVE PassBlock(_, _, _, _, _, _, _, _, _)
PassBlock(ls, n, columns, equations, residuals, shock, t, max_iter, tol) ==
    IF n = 0 \/ ls.done \/ ls.iteration >= max_iter THEN ls
    ELSE PassBlock(PassOnce(ls, columns, equations, residuals, shock, t, tol),
                   n - 1, columns, equations, residuals, shock, t, max_iter,
                   tol)

\* The whole loop, evaluated in blocks of BlockSize iterations (the passes
\* and their order are the loop's; the blocks only bound the evaluator's
\* nesting), then "return max_iter" when no pass converged.
RECURSIVE SolveIterate(_, _, _, _, _, _, _, _)
SolveIterate(ls, columns, equations, residuals, shock, t, max_iter, tol) ==
    IF ls.done THEN ls
    ELSE IF ls.iteration >= max_iter THEN [ls EXCEPT !.ret = max_iter]
    ELSE SolveIterate(PassBlock(ls, BlockSize, columns, equations, residuals,
                                shock, t, max_iter, tol),
                      columns, equations, residuals, shock, t, max_iter, tol)

solve_period(data, columns, equations, residuals, shock, t, max_iter, tol) ==
    SolveIterate([data |-> data, iteration |-> 0, done |-> FALSE, ret |-> 0,
                  metrics |-> <<>>, log |-> <<>>, trace |-> <<>>],
                 columns, equations, residuals, shock, t, max_iter, tol)

(***************************************************************************)
(* Construction of a FullOBRSolver (full_solver.py 21-54).                 *)
(***************************************************************************)
IsBehavioral(eq) == eq.form \in {"ratio", "dlog", "d"}

\* Variables referenced by the equations (lines 72-75).
RhsVars(rhs) ==
    CASE rhs.op \in {"var", "lag"} -> {rhs.x}
      [] rhs.op = "sum" -> {rhs.x, rhs.y}
      [] OTHER -> {}
ReferencedVars(equations) ==
    UNION {{equations[i].var} \cup RhsVars(equations[i].rhs) :
           i \in 1 .. Len(equations)}

\* _initialize_missing_variables: every referenced variable becomes a column.
InitColumns(loaded, equations) == loaded \cup ReferencedVars(equations)

\* _build_equation_index: eq_for_var[var] = eq, later equations overwrite.
LastIndexOf(equations, x) ==
    CHOOSE i \in 1 .. Len(equations) :
        /\ equations[i].var = x
        /\ \A j \in (i + 1) .. Len(equations) : equations[j].var # x
\* A variant in which the first equation of a variable stays in the index.
_build_equation_index_first(equations) ==
    [x \in {equations[i].var : i \in 1 .. Len(equations)} |->
        equations[CHOOSE i \in 1 .. Len(equations) :
                    /\ equations[i].var = x
                    /\ \A j \in 1 .. (i - 1) : equations[j].var # x]]
_build_equation_index(equations) ==
    [x \in {equations[i].var : i \in 1 .. Len(equations)} |->
        equations[LastIndexOf(equations, x)]]

\* _initialize_historical, identity passes (lines 219-263): one equation.
InitEqStep(st, eq, columns, t) ==
    LET x == _extract_lhs_var(eq)
        current_val == IF x \in st.vkeys THEN st.v[x] ELSE NaN
        r == Eval(eq.rhs, st.v, st.vkeys, st.data, columns, t)
    IN  IF isfinite(current_val) \/ ~r.ok \/ ~isfinite(r.val) THEN st
        ELSE [data |-> IF x \in columns
                       THEN [st.data EXCEPT ![x][t] = r.val]
                       ELSE st.data,
              v |-> [st.v EXCEPT ![x] = r.val],
              vkeys |-> st.vkeys \cup {x},
              mc |-> st.mc,
              log |-> Append(st.log, x),
              trace |-> st.trace]

RECURSIVE InitRun(_, _, _, _, _)
InitRun(st, equations, i, columns, t) ==
    IF i > Len(equations) THEN st
    ELSE InitRun(IF IsBehavioral(equations[i]) THEN st
                 ELSE InitEqStep(st, equations[i], columns, t),
                 equations, i + 1, columns, t)

\* for _ in range(5): ... if pass_initialized == 0: break
RECURSIVE InitPassLoop(_, _, _, _, _)
InitPassLoop(data, equations, columns, t, n) ==
    IF n >= InitPasses THEN data
    ELSE LET st == InitRun(PassStart(data, columns, t), equations, 1, columns, t)
         IN  IF Len(st.log) = 0 THEN st.data
             ELSE InitPassLoop(st.data, equations, columns, t, n + 1)

\* for t in range(start_t, len(self.data)), start_t = 0 (no row of the
\* modelled data has more than 50 known columns, lines 121-125).  A frame
\* without columns is left as it is; the test also settles the frame of one
\* period before the next period is entered.
RECURSIVE InitPeriods(_, _, _, _)
InitPeriods(data, equations, columns, t) ==
    IF t >= NumPeriods \/ DOMAIN data = {} THEN data
    ELSE InitPeriods(InitPassLoop(data, equations, columns, t, 0),
                     equations, columns, t + 1)
_initialize_historical(data, equations, columns) ==
    InitPeriods(data, equations, columns, 0)

\* _compute_residuals (lines 268-328): residual of one equation at t, as a
\* set holding the one new entry or nothing.
Predicted(eq, data, columns, t) ==
    LET r == Eval(eq.rhs, [x \in Vars |-> _get(data, columns, x, t)], columns,
                  data, columns, t)
    IN  IF ~r.ok THEN NaN
        ELSE NewValue(eq.form, _lag(data, columns, eq.var, 1, t), r.val)

RECURSIVE ResidualsFrom(_, _, _, _, _, _)
ResidualsFrom(res, data, equations, columns, t, i) ==
    IF t >= NumPeriods THEN res
    ELSE IF i > Len(equations) THEN
        ResidualsFrom(res, data, equations, columns, t + 1, 1)
    ELSE LET eq == equations[i]
             actual_val == _get(data, columns, eq.var, t)
             predicted == Predicted(eq, data, columns, t)
             key == <<eq.var, t>>
             res2 == IF IsBehavioral(eq) /\ isfinite(actual_val)
                        /\ isfinite(predicted)
                     THEN [k \in DOMAIN res \cup {key} |->
                             IF k = key THEN Sub(actual_val, predicted)
                             ELSE res[k]]
                     ELSE res
         IN  ResidualsFrom(res2, data, equations, columns, t, i + 1)

\* start_t = index of "2024Q1"; the loop runs from max(1, start_t).
_compute_residuals(data, equations, columns) ==
    ResidualsFrom(<<>>, data, equations, columns,
                  IF FirstForecast > 1 THEN FirstForecast ELSE 1, 1)

(***************************************************************************)
(* Closure operations (full_solver.py 399-441).                            *)
(***************************************************************************)
\* A variant that removes only the first equation of the variable.
RemoveFirstEquation(equations, x) ==
    LET idx == { i \in 1 .. Len(equations) : _extract_lhs_var(equations[i]) = x }
        first == CHOOSE i \in idx : \A j \in idx : i <= j
    IN  IF idx = {} THEN equations
        ELSE SubSeq(equations, 1, first - 1)
             \o SubSeq(equations, first + 1, Len(equations))

\* [eq for eq in self.equations if self._extract_lhs_var(eq.lhs) != var]
RemoveEquations(equations, x) ==
    SelectSeq(equations, LAMBDA eq : _extract_lhs_var(eq) # x)

\* A variant that removes only the first equation of remove_var.
swap_closure_first(equations, remove_var, add_eq) ==
    Append(RemoveFirstEquation(equations, remove_var), add_eq)
swap_closure(equations, remove_var, add_eq) ==
    Append(RemoveEquations(equations, remove_var), add_eq)

\* A variant that keeps the equations.
make_exogenous_keep(equations, x) == equations
make_exogenous(equations, x) == RemoveEquations(equations, x)

\* A variant of the loop that starts one period late.
RECURSIVE ShockLoopLate(_, _, _, _, _, _)
ShockLoopLate(fr, x, shock, start_t, periods, p) ==
    IF p >= periods THEN fr
    ELSE LET t == start_t + p + 1
             old_val == _get(fr.data, fr.columns, x, t)
         IN  ShockLoopLate(IF t < NumPeriods
                           THEN [data |-> [fr.data EXCEPT
                                             ![x][t] = Add(old_val, shock)],
                                 columns |-> fr.columns \cup {x}]
                           ELSE fr,
                           x, shock, start_t, periods, p + 1)

\* apply_shock's loop (lines 433-438): for p in range(periods): t = start_t + p.
\* _get yields NaN for a variable that is no column; _set adds the column.
RECURSIVE ShockLoop(_, _, _, _, _, _)
ShockLoop(fr, x, shock, start_t, periods, p) ==
    IF p >= periods THEN fr
    ELSE LET t == start_t + p
             old_val == _get(fr.data, fr.columns, x, t)
         IN  ShockLoop(IF t < NumPeriods
                       THEN [data |-> [fr.data EXCEPT ![x][t] = Add(old_val, shock)],
                             columns |-> fr.columns \cup {x}]
                       ELSE fr,
                       x, shock, start_t, periods, p + 1)

(***************************************************************************)
(* Direct mode: Variables store, equation groups, solver.py.               *)
(***************************************************************************)
\* One assignment of a group's solve_t on the numpy arrays of the store:
\* X[t] = rhs, X[t] = X[t-1] * rhs, X[t] = X[t-1] * np.exp(rhs),
\* X[t] = X[t-1] + rhs.  A group returns at once when t < 1.
GroupRhs(rhs, vdata, t) ==
    CASE rhs.op = "const" -> rhs.c
      [] rhs.op = "var" -> Add(vdata[rhs.x][t], rhs.c)
      [] OTHER -> Add(vdata[rhs.x][t - 1], rhs.c)

GroupAssign(vdata, a, t) ==
    LET r == GroupRhs(a.rhs, vdata, t)
        lag_val == vdata[a.var][t - 1]
        val == CASE a.form = "ratio" -> Mul(lag_val, r)
                 [] a.form = "dlog" -> Mul(lag_val, Exp(r))
                 [] a.form = "d" -> Add(lag_val, r)
                 [] OTHER -> r
    IN  [vdata EXCEPT ![a.var][t] = val]

RECURSIVE GroupBody(_, _, _, _)
GroupBody(vdata, group, i, t) ==
    IF i > Len(group) THEN vdata
    ELSE GroupBody(GroupAssign(vdata, group[i], t), group, i + 1, t)

\* group(v, t)
CallGroup(vdata, group, t) ==
    IF t < 1 THEN vdata ELSE GroupBody(vdata, group, 1, t)

\* The record of one call group(v, t): the group, the store it found and
\* the store it left.
GroupCalled(rs, group, left) ==
    [data |-> left,
     calls |-> Append(rs.calls, [group |-> group, data |-> rs.data,
                                 data_left |-> left])]

\* A variant of the loop that goes through the list from its end.
GroupAtReversed(groups, i) == groups[Len(groups) + 1 - i]
\* The i-th group of "for group in groups".
GroupAt(groups, i) == groups[i]

\* for group in groups: group(v, t), on the store and the record of calls
RECURSIVE RunGroupsFrom(_, _, _, _)
RunGroupsFrom(rs, groups, i, t) ==
    IF i > Len(groups) THEN rs
    ELSE RunGroupsFrom(GroupCalled(rs, GroupAt(groups, i),
                                   CallGroup(rs.data, GroupAt(groups, i), t)),
                       groups, i + 1, t)
RunGroups(vdata, groups, i, t) ==
    RunGroupsFrom([data |-> vdata, calls |-> <<>>], groups, i, t).data

\* A variant that always takes the absolute change.
DeltaAbsolute(old, new) ==
    IF isfinite(Sub(new, old)) THEN <<Abs(new - old), 1>> ELSE <<0, 1>>
\* solver.py lines 35-40: the change of one variable over a pass.
Delta(old, new) ==
    IF isfinite(old) /\ isfinite(new) /\ old # 0
    THEN <<Abs(new - old), Abs(old)>>
    ELSE IF isfinite(Sub(new, old)) THEN <<Abs(new - old), 1>> ELSE <<0, 1>>

\* solver.py lines 33-42: max_delta over v.names().
RECURSIVE MaxDeltaOver(_, _, _, _, _)
MaxDeltaOver(names, prev, vdata, t, acc) ==
    IF names = {} THEN acc
    ELSE LET x == CHOOSE y \in names : TRUE
             delta == Delta(prev[x][t], vdata[x][t])
         IN  MaxDeltaOver(names \ {x}, prev, vdata, t,
                          IF FracLess(acc, delta) THEN delta ELSE acc)
MaxDelta(prev, vdata, t) == MaxDeltaOver(Vars, prev, vdata, t, <<0, 1>>)

DirectConverged(max_delta, tol) == FracLess(max_delta, tol)
\* A variant that reports the zero-based loop index.
DirectReturnZeroBased(iteration) == iteration
DirectReturn(iteration) == iteration + 1

\* One iteration of "for iteration in range(max_iter)" (solver.py 25-45):
\* the snapshot prev, the groups, max_delta, the convergence test.  calls
\* records the calls of the groups every pass so far made.
DirectPassEnd(ls, prev, rs, max_delta, tol) ==
    [data |-> rs.data,
     iteration |-> ls.iteration + 1,
     done |-> DirectConverged(max_delta, tol),
     ret |-> IF DirectConverged(max_delta, tol)
             THEN DirectReturn(ls.iteration) ELSE 0,
     metrics |-> Append(ls.metrics, max_delta),
     before |-> prev,
     calls |-> Append(ls.calls, rs.calls)]
DirectPassCheck(ls, prev, rs, t, tol) ==
    DirectPassEnd(ls, prev, rs, MaxDelta(prev, rs.data, t), tol)
DirectPassOnce(ls, groups, t, tol) ==
    DirectPassCheck(ls, ls.data,
                    RunGroupsFrom([data |-> ls.data, calls |-> <<>>],
                                  groups, 1, t),
                    t, tol)

RECURSIVE DirectIterate(_, _, _, _, _)
DirectIterate(ls, groups, t, max_iter, tol) ==
    IF ls.done THEN ls
    ELSE IF ls.iteration >= max_iter THEN [ls EXCEPT !.ret = max_iter]
    ELSE DirectIterate(DirectPassOnce(ls, groups, t, tol), groups, t,
                       max_iter, tol)

\* solver.solve_period(v, t, groups, max_iter, tol)
direct_solve_period(vdata, groups, t, max_iter, tol) ==
    DirectIterate([data |-> vdata, iteration |-> 0, done |-> FALSE, ret |-> 0,
                   metrics |-> <<>>, before |-> vdata, calls |-> <<>>],
                  groups, t, max_iter, tol)

\* solver.solve_model's loop body for one period is direct_solve_period;
\* FullOBRSolver.solve's is solve_period with the default max_iter and tol.

(***************************************************************************)
(* EViewsTranspiler (transpiler.py).  A text is a sequence of one-character *)
(* strings; positions are 1-based, so Python's s[i] is s[i + 1] here.      *)
(***************************************************************************)
UpperSeq ==
    <<"A", "B", "C", "D", "E", "F", "G", "H", "I", "J", "K", "L", "M",
      "N", "O", "P", "Q", "R", "S", "T", "U", "V", "W", "X", "Y", "Z">>
LowerSeq ==
    <<"a", "b", "c", "d", "e", "f", "g", "h", "i", "j", "k", "l", "m",
      "n", "o", "p", "q", "r", "s", "t", "u", "v", "w", "x", "y", "z">>
DigitSeq == <<"0", "1", "2", "3", "4", "5", "6", "7", "8", "9">>
Range(s) == { s[k] : k \in DOMAIN s }

\* The character classes of the regular expressions.
Upper == Range(UpperSeq)
Digit == Range(DigitSeq)
\* [A-Z0-9_]
NameChars == Upper \cup Digit \cup {"_"}
\* \w, whose complement on either side makes a \b
WordChars == NameChars \cup Range(LowerSeq)
\* \s
Space == {" "}
isalpha(c) == c \in Upper \cup Range(LowerSeq)
\* str.lower()
lower(s) ==
    [k \in DOMAIN s |->
        IF s[k] \in Upper
        THEN LowerSeq[CHOOSE j \in DOMAIN UpperSeq : UpperSeq[j] = s[k]]
        ELSE s[k]]

\* s[a:b] with Python's clamping, on 1-based inclusive positions a .. b.
Slice(s, a, b) ==
    SubSeq(s, IF a < 1 THEN 1 ELSE a, IF b > Len(s) THEN Len(s) ELSE b)
\* s[i:i+len(pat)] == pat
StartsWith(s, i, pat) == Slice(s, i, i + Len(pat) - 1) = pat

\* The first position from p on whose character is outside the class: the
\* end of a greedy run.
RECURSIVE Span(_, _, _)
Span(s, p, class) ==
    IF p > Len(s) \/ s[p] \notin class THEN p ELSE Span(s, p + 1, class)
At(s, p, class) == p <= Len(s) /\ s[p] \in class

\* int(digits) and str(n)
RECURSIVE ParseNat(_, _, _, _)
ParseNat(s, p, e, acc) ==
    IF p >= e THEN acc
    ELSE ParseNat(s, p + 1, e,
                  (10 * acc) + (CHOOSE d \in 0 .. 9 : DigitSeq[d + 1] = s[p]))
RECURSIVE FormatNat(_)
FormatNat(n) ==
    IF n < 10 THEN <<DigitSeq[n + 1]>>
    ELSE Append(FormatNat(n \div 10), DigitSeq[(n % 10) + 1])
FormatInt(n) == IF n < 0 THEN <<"-">> \o FormatNat(-n) ELSE FormatNat(n)

\* The texts the replacements produce.
T_v == <<"v", "[", "'">>
T_lag == <<"_", "l", "a", "g", "(", "'">>
T_lead == <<"_", "l", "e", "a", "d", "(", "'">>
T_nplog == <<"n", "p", ".", "l", "o", "g", "(">>
T_npexp == <<"n", "p", ".", "e", "x", "p", "(">>
VRef(var) == T_v \o var \o <<"'", "]">>
LagRef(var, n) == T_lag \o var \o <<"'", ",", " ">> \o FormatInt(n) \o <<")">>
LeadRef(var, n) == T_lead \o var \o <<"'", ",", " ">> \o FormatInt(n) \o <<")">>

\* A match of ([A-Z][A-Z0-9_]*)\((-?\d+)\) at position i: the name ends
\* before e1, the digits start at p3 and end before e3.
ExplicitDigits(s, i, e1, p3, e3) ==
    [ok |-> e3 > p3 /\ At(s, e3, {")"}),
     var |-> SubSeq(s, i, e1 - 1),
     num |-> IF e3 > p3
             THEN (IF p3 > e1 + 1 THEN -1 ELSE 1) * ParseNat(s, p3, e3, 0)
             ELSE 0,
     end_pos |-> e3 + 1]
ExplicitSign(s, i, e1, p3) ==
    ExplicitDigits(s, i, e1, p3, Span(s, p3, Digit))
ExplicitName(s, i, e1) ==
    IF At(s, e1, {"("})
    THEN ExplicitSign(s, i, e1, IF At(s, e1 + 1, {"-"}) THEN e1 + 2 ELSE e1 + 1)
    ELSE [ok |-> FALSE, var |-> <<>>, num |-> 0, end_pos |-> i]
ExplicitMatch(s, i) ==
    IF At(s, i, Upper) THEN ExplicitName(s, i, Span(s, i + 1, NameChars))
    ELSE [ok |-> FALSE, var |-> <<>>, num |-> 0, end_pos |-> i]

\* A match of \b([A-Z][A-Z0-9_]*)\b at position i, and what follows it:
\* the character at the end e of the name, and the one after the spaces.
BareName(s, i, e, q) ==
    [ok |-> ~At(s, e, WordChars),
     var |-> SubSeq(s, i, e - 1),
     quote |-> At(s, e, {"'"}),
     open |-> At(s, q, {"(", "["}),
     spaced_quote |-> At(s, q, {"'"}),
     end_pos |-> e]
BareEnd(s, i, e) == BareName(s, i, e, Span(s, e, Space))
BareMatch(s, i) ==
    IF At(s, i, Upper) /\ (i = 1 \/ s[i - 1] \notin WordChars)
    THEN BareEnd(s, i, Span(s, i + 1, NameChars))
    ELSE [ok |-> FALSE, var |-> <<>>, quote |-> FALSE, open |-> FALSE,
          spaced_quote |-> FALSE, end_pos |-> i]

\* The negative lookaheads (?!\s*[\(\[]|\') and (?!\s*[\(\[\']).
SimpleLookahead(m) == [m EXCEPT !.ok = @ /\ ~m.open /\ ~m.quote]
LagsLookahead(m) == [m EXCEPT !.ok = @ /\ ~m.open /\ ~m.spaced_quote]

\* (?<!np\.)\blog\( and the same for exp (line 251-252).
FunctionMatch(s, i, name) ==
    [ok |-> /\ StartsWith(s, i, name \o <<"(">>)
            /\ (i = 1 \/ s[i - 1] \notin WordChars)
            /\ ~(i > 3 /\ SubSeq(s, i - 3, i - 1) = <<"n", "p", ".">>),
     end_pos |-> i + Len(name) + 1]

\* The patterns of the re.sub calls and of str.replace, by the function
\* and the step that applies them.
MatchRule(rule, s, i) ==
    CASE rule.kind \in {"simple_explicit", "lags_explicit"} -> ExplicitMatch(s, i)
      [] rule.kind = "simple_bare" -> SimpleLookahead(BareMatch(s, i))
      [] rule.kind = "lags_bare" -> LagsLookahead(BareMatch(s, i))
      [] rule.kind = "log" -> FunctionMatch(s, i, <<"l", "o", "g">>)
      [] rule.kind = "exp" -> FunctionMatch(s, i, <<"e", "x", "p">>)
      [] rule.kind = "power" -> [ok |-> s[i] = "^", end_pos |-> i + 1]

\* The replacement functions: replace and replace_bare of
\* _convert_lags_simple (lines 134-141, 148-155) and of _convert_lags
\* (lines 217-226, 234-242), and the fixed replacement texts.
ReplaceRule(rule, m) ==
    CASE rule.kind = "simple_explicit" ->
           IF (-m.num) + rule.lag = 0 THEN VRef(m.var)
           ELSE LagRef(m.var, (-m.num) + rule.lag)
      [] rule.kind = "simple_bare" ->
           IF m.var \in {<<"N", "P">>, <<"Q">>} THEN m.var
           ELSE IF rule.lag = 0 THEN VRef(m.var)
           ELSE LagRef(m.var, rule.lag)
      [] rule.kind = "lags_explicit" ->
           IF m.num = 0 THEN VRef(m.var)
           ELSE IF m.num < 0 THEN LagRef(m.var, -m.num)
           ELSE LeadRef(m.var, m.num)
      [] rule.kind = "lags_bare" ->
           IF m.var \in {<<"Q">>, <<"N", "P">>, <<"L", "O", "G">>,
                         <<"E", "X", "P">>}
           THEN m.var ELSE VRef(m.var)
      [] rule.kind = "log" -> T_nplog
      [] rule.kind = "exp" -> T_npexp
      [] rule.kind = "power" -> <<"*", "*">>

\* re.sub over s, as a loop on the position i and the output so far: a
\* match is replaced and the scan goes on after it, any other character is
\* copied.  The loop is evaluated in blocks of BlockSize steps.
ScanStep(rule, s, sc, m) ==
    IF m.ok
    THEN [i |-> m.end_pos, out |-> sc.out \o ReplaceRule(rule, m)]
    ELSE [i |-> sc.i + 1, out |-> Append(sc.out, s[sc.i])]
RECURSIVE ScanBlock(_, _, _, _)
ScanBlock(rule, s, sc, n) ==
    IF n = 0 \/ sc.i > Len(s) THEN sc
    ELSE ScanBlock(rule, s, ScanStep(rule, s, sc, MatchRule(rule, s, sc.i)),
                   n - 1)
RECURSIVE Scan(_, _, _)
Scan(rule, s, sc) ==
    IF sc.i > Len(s) THEN sc.out
    ELSE Scan(rule, s, ScanBlock(rule, s, sc, BlockSize))
re_sub(kind, lag, s) ==
    Scan([kind |-> kind, lag |-> lag], s, [i |-> 1, out |-> <<>>])

\* _convert_lags_simple (lines 129-158): the explicit lags, then the bare
\* names.
_convert_lags_simple(s, lag) ==
    re_sub("simple_bare", lag, re_sub("simple_explicit", lag, s))

\* _extract_balanced_parens (lines 160-183): start is the position of the
\* opening parenthesis; end_pos is the position after the closing one.
RECURSIVE BalancedEnd(_, _, _)
BalancedEnd(s, i, depth) ==
    IF i > Len(s) \/ depth = 0 THEN i
    ELSE BalancedEnd(s, i + 1, CASE s[i] = "(" -> depth + 1
                                 [] s[i] = ")" -> depth - 1
                                 [] OTHER -> depth)
Extracted(s, start, i) == [inner |-> Slice(s, start + 1, i - 2), end_pos |-> i]
_extract_balanced_parens(s, start) ==
    IF s[start] # "(" THEN [inner |-> <<>>, end_pos |-> start]
    ELSE Extracted(s, start, BalancedEnd(s, start + 1, 1))

\* f"(np.log({inner_current}) - np.log({inner_lagged}))" (lines 118-121)
DlogText(inner) ==
    <<"(">> \o T_nplog \o _convert_lags_simple(inner, 0) \o <<")", " ", "-", " ">>
    \o T_nplog \o _convert_lags_simple(inner, 1) \o <<")", ")">>
\* f"(({inner_current}) - ({inner_lagged}))" (lines 201-204)
DText(inner) ==
    <<"(", "(">> \o _convert_lags_simple(inner, 0) \o <<")", " ", "-", " ", "(">>
    \o _convert_lags_simple(inner, 1) \o <<")", ")">>

\* The test of the while loops of _convert_dlog (line 113) and _convert_d
\* (line 196) at position i: the position of the opening parenthesis of
\* the operator that starts at i, or 0.
DiffParen(kind, s, i) ==
    IF kind = "dlog"
    THEN (IF lower(Slice(s, i, i + 4)) = <<"d", "l", "o", "g", "(">>
          THEN i + 4 ELSE 0)
    ELSE (IF /\ Slice(s, i, i + 1) = <<"d", "(">>
             /\ (i = 1 \/ (~isalpha(s[i - 1]) /\ s[i - 1] # "_"))
          THEN i + 1 ELSE 0)

\* The body of the while loops (lines 111-125, 194-208).
DiffFound(kind, sc, ex) ==
    [i |-> ex.end_pos,
     out |-> sc.out \o (IF kind = "dlog" THEN DlogText(ex.inner)
                        ELSE DText(ex.inner))]
DiffStep(kind, s, sc, paren) ==
    IF paren = 0 THEN [i |-> sc.i + 1, out |-> Append(sc.out, s[sc.i])]
    ELSE DiffFound(kind, sc, _extract_balanced_parens(s, paren))
RECURSIVE DiffBlock(_, _, _, _)
DiffBlock(kind, s, sc, n) ==
    IF n = 0 \/ sc.i > Len(s) THEN sc
    ELSE DiffBlock(kind, s, DiffStep(kind, s, sc, DiffParen(kind, s, sc.i)),
                   n - 1)
RECURSIVE DiffScan(_, _, _)
DiffScan(kind, s, sc) ==
    IF sc.i > Len(s) THEN sc.out
    ELSE DiffScan(kind, s, DiffBlock(kind, s, sc, BlockSize))

\* _convert_dlog (lines 103-127) and _convert_d (lines 185-210)
_convert_dlog(s) == DiffScan("dlog", s, [i |-> 1, out |-> <<>>])
_convert_d(s) == DiffScan("d", s, [i |-> 1, out |-> <<>>])

\* _convert_lags (lines 212-246) with default_lag = None.
_convert_lags(s) == re_sub("lags_bare", 0, re_sub("lags_explicit", 0, s))

\* _convert_functions (lines 248-253)
_convert_functions(s) == re_sub("exp", 0, re_sub("log", 0, s))

\* s.replace("^", "**")
Power(s) == re_sub("power", 0, s)

\* str.strip()
RECURSIVE SpanBack(_, _)
SpanBack(s, p) == IF p < 1 \/ s[p] \notin Space THEN p ELSE SpanBack(s, p - 1)
strip(s) == SubSeq(s, Span(s, 1, Space), SpanBack(s, Len(s)))

\* transpile (lines 28-56).  Steps 1 to 3 rewrite @elem, @recode and @TREND
\* calls only, and the texts transpiled here hold no "@".
transpile(eviews_expr) ==
    Power(_convert_functions(_convert_lags(_convert_d(_convert_dlog(
        strip(eviews_expr))))))

(***************************************************************************)
(* Variables (variables.py): the quarterly index and the named arrays.     *)
(* A quarter label "2009Q3" is the pair <<2009, 3>>; a pandas Period of    *)
(* quarterly frequency is its ordinal, the number of quarters since 1970Q1.*)
(***************************************************************************)
\* pd.Period(period_str, freq="Q"): raises on a label that names no quarter.
Period(period_str) ==
    IF period_str[2] \in 1 .. 4
    THEN [ok |-> TRUE,
          ordinal |-> ((period_str[1] - 1970) * 4) + (period_str[2] - 1)]
    ELSE [ok |-> FALSE, ordinal |-> 0]

\* str(period)
PeriodStr(ordinal) == <<1970 + (ordinal \div 4), (ordinal % 4) + 1>>

\* pd.period_range(start=start, end=end, freq="Q") for a horizon of n quarters
period_range(start, n) == [t \in 0 .. (n - 1) |-> Period(start).ordinal + t]

\* arr[t] on an array of n elements (numpy, PeriodIndex): a negative t
\* counts from the end, and a t outside -n .. n-1 raises IndexError.
InBounds(t, n) == (-n) <= t /\ t < n
Position(t, n) == IF t < 0 THEN n + t ELSE t

\* The store: the index, the keys of _data and the arrays.  The array of a
\* name that is no key is not there; it is written as all NaN.
\* _ensure (lines 32-35)
_ensure(store, name) ==
    IF name \in store.names THEN store
    ELSE [store EXCEPT !.names = @ \cup {name},
                       !.data[name] = [t \in Periods |-> NaN]]

\* A variant of __setitem__ that fills the first element only.
__setitem__first(store, name, value) ==
    [_ensure(store, name) EXCEPT !.data[name][0] = value]
\* __setitem__ (lines 40-42): arr[:] = np.broadcast_to(value, arr.shape)
__setitem__(store, name, value) ==
    [_ensure(store, name) EXCEPT !.data[name] = [t \in Periods |-> value]]

\* OBRMacroModel.set (model.py 25-26): self.v[name][:] = value
model_set(store, name, value) ==
    [_ensure(store, name) EXCEPT !.data[name] = [t \in Periods |-> value]]

\* Variables.set (lines 44-45): self._ensure(name)[t] = value
set(store, name, t, value) ==
    IF InBounds(t, NumPeriods)
    THEN [ok |-> TRUE,
          store |-> [_ensure(store, name) EXCEPT
                       !.data[name][Position(t, NumPeriods)] = value]]
    ELSE [ok |-> FALSE, store |-> _ensure(store, name)]

\* Variables.get (lines 47-48): return self._ensure(name)[t]
get(store, name, t) ==
    [ok |-> InBounds(t, NumPeriods),
     val |-> IF InBounds(t, NumPeriods)
             THEN _ensure(store, name).data[name][Position(t, NumPeriods)]
             ELSE NaN,
     store |-> _ensure(store, name)]

\* index.get_loc(p): the position of p in the index, KeyError if absent.
get_loc(idx, p) ==
    IF \E t \in DOMAIN idx : idx[t] = p
    THEN [ok |-> TRUE, val |-> CHOOSE t \in DOMAIN idx : idx[t] = p]
    ELSE [ok |-> FALSE, val |-> 0]

\* A variant that returns the last position for a period after the horizon.
period_to_idx_clamped(store, period_str) ==
    IF ~Period(period_str).ok THEN [ok |-> FALSE, val |-> 0]
    ELSE IF get_loc(store.index, Period(period_str).ordinal).ok
    THEN get_loc(store.index, Period(period_str).ordinal)
    ELSE [ok |-> Period(period_str).ordinal > store.index[0],
          val |-> NumPeriods - 1]
\* Variables.period_to_idx (lines 50-54)
period_to_idx(store, period_str) ==
    IF ~Period(period_str).ok THEN [ok |-> FALSE, val |-> 0]
    ELSE get_loc(store.index, Period(period_str).ordinal)

\* FullOBRSolver.period_idx (full_solver.py 443-444) on the index of the data
period_idx(idx, period) ==
    IF ~Period(period).ok THEN [ok |-> FALSE, val |-> 0]
    ELSE get_loc(idx, Period(period).ordinal)

\* A variant of elem that looks one period early.
elem_early(store, name, period_str) ==
    IF ~period_to_idx(store, period_str).ok
    THEN [ok |-> FALSE, val |-> NaN, store |-> store]
    ELSE get(store, name, period_to_idx(store, period_str).val - 1)
\* Variables.elem (lines 56-58)
elem(store, name, period_str) ==
    IF ~period_to_idx(store, period_str).ok
    THEN [ok |-> FALSE, val |-> NaN, store |-> store]
    ELSE get(store, name, period_to_idx(store, period_str).val)

\* The comparisons of self.index[t] with pd.Period(period_str, freq="Q"),
\* which raise on a t out of bounds and on a label that names no quarter.
DateCompare(store, t, period_str, holds) ==
    [ok |-> InBounds(t, NumPeriods) /\ Period(period_str).ok,
     val |-> IF InBounds(t, NumPeriods) /\ Period(period_str).ok /\ holds
             THEN 1 ELSE 0]
IndexAt(store, t) ==
    IF InBounds(t, NumPeriods) THEN store.index[Position(t, NumPeriods)] ELSE 0

\* date_equals, date_gte, date_lte (lines 60-70): 1.0 or 0.0
date_equals(store, t, period_str) ==
    DateCompare(store, t, period_str,
                IndexAt(store, t) = Period(period_str).ordinal)
\* A variant of date_gte with a strict comparison.
date_gt(store, t, period_str) ==
    DateCompare(store, t, period_str,
                IndexAt(store, t) > Period(period_str).ordinal)
date_gte(store, t, period_str) ==
    DateCompare(store, t, period_str,
                IndexAt(store, t) >= Period(period_str).ordinal)
date_lte(store, t, period_str) ==
    DateCompare(store, t, period_str,
                IndexAt(store, t) <= Period(period_str).ordinal)

(***************************************************************************)
(* Inputs: equation lists, group lists and starting data.                  *)
(***************************************************************************)
\* Starting data: one series per variable.
Series(c) == [t \in Periods |-> c]
Ramp == [t \in Periods |-> t + 1]
Dataset(cgg, gdpm, dinv) ==
    [x \in Vars |-> CASE x = "CGG" -> cgg [] x = "GDPM" -> gdpm [] OTHER -> dinv]
DataA == Dataset(Series(5), Series(1), Series(4))
DataB == Dataset(Ramp, Series(4), Series(NaN))
DataC == Dataset(Series(0), Series(0), Series(0))
DataD == Dataset(Series(2), Ramp, Series(1))
\* A series that has overflowed.
DataE == Dataset(Series(5), Series(1), Series(Inf))
\* A series at the largest finite value.
DataF == Dataset(Series(1), Series(MaxFloat), Series(1))

\* Equation lists as parse_model_file returns them.
Chain == <<Bare("GDPM", Cur("CGG", 1)), Bare("DINV", Cur("GDPM", 0))>>
Offset == <<Bare("GDPM", Cur("DINV", -3)), Bare("DINV", Cur("CGG", 0))>>
Cycle == <<Bare("GDPM", Cur("DINV", 1)), Bare("DINV", Cur("GDPM", 0))>>
Growth == <<Diff("GDPM", Cur("CGG", 0)), Ratio("DINV", Const(2))>>
Both == <<Dlog("GDPM", Const(1)), Bare("GDPM", Cur("CGG", 0))>>
Feed == <<Bare("DINV", Cur("CGG", 0)), Diff("GDPM", Cur("DINV", 0))>>
Broken == <<Bare("GDPM", Unknown), Dlog("DINV", Lag("CGG", 0))>>
Single == <<Bare("GDPM", Cur("CGG", 1))>>
Mirror == <<Ratio("GDPM", Const(-1))>>

\* The loaded dataset and the parsed equations a solver is built from.
Scenarios ==
    { <<DataA, Chain>>, <<DataB, Chain>>, <<DataA, Offset>>, <<DataC, Cycle>>,
      <<DataA, Growth>>, <<DataD, Growth>>, <<DataA, Both>>, <<DataD, Feed>>,
      <<DataB, Broken>>, <<DataB, Single>>, <<DataA, Broken>>,
      <<DataF, Mirror>> }

\* Equations a caller registers with swap_closure.
SwapEquations ==
    { Bare("GDPM", Cur("CGG", 0)), Diff("DINV", Const(1)) }

\* Group lists of the direct mode: each group is the sequence of the
\* assignments its solve_t makes.
ChainGroups ==
    << <<Bare("GDPM", Cur("CGG", 1))>>, <<Bare("DINV", Cur("GDPM", 0))>> >>
OffsetGroups ==
    << <<Bare("GDPM", Cur("DINV", -3))>>, <<Bare("DINV", Cur("CGG", 0))>> >>
CycleGroups ==
    << <<Bare("GDPM", Cur("DINV", 1)), Bare("DINV", Cur("GDPM", 0))>> >>
GrowthGroups ==
    << <<Dlog("GDPM", Const(1))>>,
       <<Diff("DINV", Cur("GDPM", 0)), Ratio("CGG", Const(2))>> >>
OverflowGroups ==
    << <<Bare("GDPM", Cur("DINV", -3))>>,
       <<Bare("DINV", Cur("CGG", 0)), Ratio("CGG", Const(2))>> >>
DirectScenarios ==
    { <<DataA, ChainGroups>>, <<DataB, ChainGroups>>, <<DataA, OffsetGroups>>,
      <<DataC, CycleGroups>>, <<DataA, CycleGroups>>, <<DataD, GrowthGroups>>,
      <<DataE, OverflowGroups>> }

\* The columns of a loaded dataset: a variable that is NaN throughout may
\* be missing from the file.
LoadedColumns(d) ==
    { Vars } \cup { Vars \ {x} : x \in {y \in Vars : \A t \in Periods : isnan(d[y][t])} }

\* Arguments the operations are called with.
SolveRanges ==
    { <<0, NumPeriods - 1>>, <<1, 1>>, <<2, 1>> }
SolveArgs ==
    { <<1, DefaultTol>>, <<MaxIter, DefaultTol>>, <<MaxIter, <<1, 2>>>> }
Shocks == {2}
ShockSpans == { <<0, 0>>, <<1, 2>>, <<NumPeriods - 1, 2>> }

\* EViews expressions: a bare VAR, VAR(-n), a number, a binary operation, a
\* parenthesised expression and a call f(E) of log, exp, dlog or d.
Var(name) == <<"var", name>>
Lagged(name, n) == <<"lag", name, n>>
Num(digits) == <<"num", digits>>
Bin(a, op, b) == <<"bin", a, op, b>>
Par(a) == <<"par", a>>
Call(f, a) == <<"call", f, a>>

\* The text of an expression as the model file writes it.
RECURSIVE Render(_)
Render(e) ==
    CASE e[1] = "var" -> e[2]
      [] e[1] = "lag" -> e[2] \o <<"(", "-">> \o FormatNat(e[3]) \o <<")">>
      [] e[1] = "num" -> e[2]
      [] e[1] = "bin" -> Render(e[2]) \o <<e[3]>> \o Render(e[4])
      [] e[1] = "par" -> <<"(">> \o Render(e[2]) \o <<")">>
      [] OTHER -> e[2] \o <<"(">> \o Render(e[3]) \o <<")">>

PCE == <<"P", "C", "E">>
GPW == <<"G", "P", "W">>
F_log == <<"l", "o", "g">>
F_dlog == <<"d", "l", "o", "g">>
F_d == <<"d">>

\* The variable references of the operands: VAR and VAR(-1) .. VAR(-MaxLag).
Refs(names_) ==
    { Var(x) : x \in names_ }
    \cup { Lagged(x, n) : x \in names_, n \in 1 .. MaxLag }

\* The operands E of dlog(E) and d(E).
Operands ==
    Refs({PCE, GPW})
    \cup { Bin(a, "*", b) : a \in Refs({GPW}), b \in Refs({PCE}) }
    \cup { Bin(Bin(a, "*", Num(<<"1", "0", "0", "0">>)), "/",
               Par(Bin(b, "/", Num(<<"1", "0", "0">>)))) :
            a \in Refs({GPW}), b \in Refs({PCE}) }
    \cup { Bin(a, "-", Par(Bin(Num(<<"1">>), "+", b))) :
            a \in Refs({PCE}), b \in Refs({GPW}) }
    \cup { Call(F_log, a) : a \in Refs({PCE}) }
    \cup { Bin(a, "^", Num(<<"2">>)) : a \in Refs({PCE}) }
    \cup { Call(f, a) : f \in {F_dlog, F_d}, a \in Refs({PCE}) }
    \cup { Bin(Call(F_d, a), "+", b) : a \in Refs({PCE}), b \in Refs({GPW}) }
TranspileSources == { Call(f, e) : f \in {F_dlog, F_d}, e \in Operands }


VARIABLES mode, data, columns, equations, eq_for_var, residuals,
          shock_active, baseline, exo, vdata, groups, run, reform, last, nops,
          index, names, base_values

vars == <<mode, data, columns, equations, eq_for_var, residuals,
          shock_active, baseline, exo, vdata, groups, run, reform, last, nops,
          index, names, base_values>>

fullVars == <<data, columns, equations, eq_for_var, residuals,
              shock_active, baseline, exo, base_values>>

NoRun == [pc |-> "idle", t |-> 0, t_start |-> 0, t_end |-> 0,
          max_iter |-> 0, tol |-> DefaultTol, results |-> <<>>, order |-> <<>>]
NoLast == [op |-> "none"]
NoReform == [done |-> FALSE]
NoData == [x \in Vars |-> Series(NaN)]

\* The labels of the solvers' horizon, and the index of the loaded data.
HorizonStart == <<2009, 3>>
DataIndex == period_range(HorizonStart, NumPeriods)

\* _extract_base_values (lines 56-65): the loaded values that are not NaN,
\* under the key "<column>_<period>".
_extract_base_values(d0, c0) ==
    [k \in { <<x, PeriodStr(DataIndex[t])>> :
               <<x, t>> \in { c \in c0 \X Periods : ~isnan(d0[c[1]][c[2]]) } }
       |-> d0[k[1]][get_loc(DataIndex, Period(k[2]).ordinal).val]]

\* FullOBRSolver.__init__ on a loaded dataset d0 with columns c0.
InitFull(d0, c0, eqs) ==
    \E cols \in {InitColumns(c0, eqs)} :
      \E d1 \in {_initialize_historical(d0, eqs, cols)} :
        /\ data = d1
        /\ base_values = _extract_base_values(d0, c0)
        /\ columns = cols
        /\ equations = eqs
        /\ eq_for_var = _build_equation_index(eqs)
        /\ residuals = _compute_residuals(d1, eqs, cols)
        /\ shock_active = FALSE
        /\ baseline = d1
        /\ exo = {}

Init ==
    /\ mode \in {"full", "direct", "reform"}
    /\ index = DataIndex
    /\ names = IF mode = "direct" THEN Vars ELSE {}
    /\ run = NoRun
    /\ reform = NoReform
    /\ last = NoLast
    /\ nops = 0
    /\ IF mode = "direct"
       THEN /\ \E sc \in DirectScenarios : vdata = sc[1] /\ groups = sc[2]
            /\ InitFull(NoData, Vars, <<>>)
       ELSE /\ vdata = NoData
            /\ groups = <<>>
            /\ \E sc \in Scenarios :
                 \E c0 \in LoadedColumns(sc[1]) : InitFull(sc[1], c0, sc[2])

(***************************************************************************)
(* Operations of a FullOBRSolver instance.                                 *)
(***************************************************************************)
Idle == run.pc = "idle"

\* solver.solve_period(t, max_iter, tol) called directly.
SolvePeriod(t, max_iter, tol) ==
    /\ mode = "full" /\ Idle /\ nops < MaxOps
    /\ \E r \in {solve_period(data, columns, equations, residuals,
                               shock_active, t, max_iter, tol)} :
           /\ data' = r.data
           /\ last' = [op |-> "solve_period", t |-> t, max_iter |-> max_iter,
                       tol |-> tol, ret |-> r.ret, passes |-> r.iteration,
                       metrics |-> r.metrics, log |-> r.log,
                       trace |-> r.trace]
    /\ nops' = nops + 1
    /\ UNCHANGED <<mode, index, names, base_values,
                   columns, equations, eq_for_var,
                   residuals,
                   shock_active, baseline, exo, vdata, groups, run, reform>>

\* solver.solve(start, end), lines 513-516: the index lookups and the empty
\* result; with an empty range the call returns at once.
SolveBegin(t_start, t_end) ==
    /\ mode = "full" /\ Idle /\ nops < MaxOps
    /\ nops' = nops + 1
    /\ IF t_start > t_end
       THEN /\ run' = NoRun
            /\ last' = [op |-> "solve", t_start |-> t_start, t_end |-> t_end,
                        results |-> <<>>, order |-> <<>>]
       ELSE /\ run' = [pc |-> "solving", t |-> t_start, t_start |-> t_start,
                       t_end |-> t_end, max_iter |-> DefaultMaxIter,
                       tol |-> DefaultTol, results |-> <<>>, order |-> <<>>]
            /\ last' = [op |-> "solve_begin"]
    /\ UNCHANGED <<mode, index, names, fullVars, vdata, groups, reform>>

\* results[period] = iters
Record(results, t, iters) ==
    [k \in DOMAIN results \cup {t} |-> IF k = t THEN iters ELSE results[k]]

\* A variant of the loop whose range excludes the end period.
LoopStepExclusive(iters, results, order) ==
    IF run.t + 2 > run.t_end
    THEN /\ run' = NoRun
         /\ last' = [op |-> "solve", t_start |-> run.t_start,
                     t_end |-> run.t_end, results |-> results,
                     order |-> order]
    ELSE /\ run' = [run EXCEPT !.t = run.t + 1,
                               !.results = results, !.order = order]
         /\ last' = [op |-> "solve_step", t |-> run.t, ret |-> iters]

\* The end of one loop iteration: the next period, or the return of the
\* results after the last one.
LoopStep(iters, results, order) ==
    IF run.t + 1 > run.t_end
    THEN /\ run' = NoRun
         /\ last' = [op |-> "solve", t_start |-> run.t_start,
                     t_end |-> run.t_end, results |-> results,
                     order |-> order]
    ELSE /\ run' = [run EXCEPT !.t = run.t + 1,
                               !.results = results, !.order = order]
         /\ last' = [op |-> "solve_step", t |-> run.t, ret |-> iters]

\* One iteration of "for t in range(t_start, t_end + 1)" (lines 517-520);
\* the last one returns the results.
SolveStep ==
    /\ mode = "full" /\ run.pc = "solving"
    /\ \E r \in {solve_period(data, columns, equations, residuals,
                               shock_active, run.t, run.max_iter, run.tol)} :
           /\ data' = r.data
           /\ LoopStep(r.ret, Record(run.results, run.t, r.ret),
                       Append(run.order, run.t))
    /\ UNCHANGED <<mode, index, names, base_values,
                   columns, equations, eq_for_var,
                   residuals,
                   shock_active, baseline, exo, vdata, groups, reform, nops>>

SwapClosure(remove_var, add_eq) ==
    /\ mode = "full" /\ Idle /\ nops < MaxOps
    /\ equations' = swap_closure(equations, remove_var, add_eq)
    /\ eq_for_var' = _build_equation_index(equations')
    /\ exo' = exo \ {add_eq.var}
    /\ last' = [op |-> "swap_closure", var |-> remove_var, eq |-> add_eq]
    /\ nops' = nops + 1
    /\ UNCHANGED <<mode, index, names, base_values,
                   data, columns, residuals, shock_active, baseline,
                   vdata, groups, run, reform>>

MakeExogenous(x) ==
    /\ mode = "full" /\ Idle /\ nops < MaxOps
    /\ equations' = make_exogenous(equations, x)
    /\ eq_for_var' = _build_equation_index(equations')
    /\ exo' = exo \cup {x}
    /\ last' = [op |-> "make_exogenous", var |-> x]
    /\ nops' = nops + 1
    /\ UNCHANGED <<mode, index, names, base_values,
                   data, columns, residuals, shock_active, baseline,
                   vdata, groups, run, reform>>

\* A variant that computes the residuals again from the shocked data.
ApplyShockRecompute(x, shock, start_t, periods) ==
    /\ mode = "full" /\ Idle /\ nops < MaxOps
    /\ equations' = make_exogenous(equations, x)
    /\ eq_for_var' = _build_equation_index(equations')
    /\ exo' = exo \cup {x}
    /\ shock_active' = TRUE
    /\ \E fr \in {ShockLoop([data |-> data, columns |-> columns], x, shock,
                             start_t, periods, 0)} :
           /\ data' = fr.data /\ columns' = fr.columns
           /\ residuals' = _compute_residuals(fr.data, equations', fr.columns)
    /\ last' = [op |-> "apply_shock", var |-> x, shock |-> shock,
                t |-> start_t, periods |-> periods]
    /\ nops' = nops + 1
    /\ UNCHANGED <<mode, index, names, base_values,
                   baseline, vdata, groups, run, reform>>

ApplyShock(x, shock, start_t, periods) ==
    /\ mode = "full" /\ Idle /\ nops < MaxOps
    /\ equations' = make_exogenous(equations, x)
    /\ eq_for_var' = _build_equation_index(equations')
    /\ exo' = exo \cup {x}
    /\ shock_active' = TRUE
    /\ \E fr \in {ShockLoop([data |-> data, columns |-> columns], x, shock,
                             start_t, periods, 0)} :
           data' = fr.data /\ columns' = fr.columns
    /\ last' = [op |-> "apply_shock", var |-> x, shock |-> shock,
                t |-> start_t, periods |-> periods]
    /\ nops' = nops + 1
    /\ UNCHANGED <<mode, index, names, base_values,
                   residuals, baseline, vdata, groups, run, reform>>

(***************************************************************************)
(* Operations of the direct mode (solver.py, model.py).                    *)
(***************************************************************************)
\* solver.solve_period(v, t, groups, max_iter, tol)
DirectSolvePeriod(t, max_iter, tol) ==
    /\ mode = "direct" /\ Idle /\ nops < MaxOps
    /\ \E r \in {direct_solve_period(vdata, groups, t, max_iter, tol)} :
           /\ vdata' = r.data
           /\ last' = [op |-> "solve_period", t |-> t, max_iter |-> max_iter,
                       tol |-> tol, ret |-> r.ret, passes |-> r.iteration,
                       metrics |-> r.metrics, before |-> r.before,
                       calls |-> r.calls]
    /\ nops' = nops + 1
    /\ UNCHANGED <<mode, index, names, fullVars, groups, run, reform>>

\* OBRMacroModel.run / solver.solve_model: iterations = {} and the loop.
ModelRunBegin(start_t, end_t, max_iter, tol) ==
    /\ mode = "direct" /\ Idle /\ nops < MaxOps
    /\ nops' = nops + 1
    /\ IF start_t > end_t
       THEN /\ run' = NoRun
            /\ last' = [op |-> "solve", t_start |-> start_t, t_end |-> end_t,
                        results |-> <<>>, order |-> <<>>]
       ELSE /\ run' = [pc |-> "solving", t |-> start_t, t_start |-> start_t,
                       t_end |-> end_t, max_iter |-> max_iter, tol |-> tol,
                       results |-> <<>>, order |-> <<>>]
            /\ last' = [op |-> "solve_begin"]
    /\ UNCHANGED <<mode, index, names, fullVars, vdata, groups, reform>>

\* One iteration of "for t in range(start_t, end_t + 1)" (solver.py 64-66).
ModelRunStep ==
    /\ mode = "direct" /\ run.pc = "solving"
    /\ \E r \in {direct_solve_period(vdata, groups, run.t, run.max_iter,
                                      run.tol)} :
           /\ vdata' = r.data
           /\ LoopStep(r.ret, Record(run.results, run.t, r.ret),
                       Append(run.order, run.t))
    /\ UNCHANGED <<mode, index, names, fullVars, groups, reform, nops>>

(***************************************************************************)
(* reform_analysis.run_reform (lines 38-101): a baseline and a shocked     *)
(* solver built from the same data, the same closure swap, both solved.    *)
(***************************************************************************)
GDPM_EQ == Bare("GDPM", Sum("CGG", "DINV"))

\* FullOBRSolver.solve as one function: the data after the loop.
RECURSIVE solve(_, _, _, _, _, _, _)
solve(d, cols, eqs, res, shock, t, t_end) ==
    IF t > t_end THEN d
    ELSE solve(solve_period(d, cols, eqs, res, shock, t, DefaultMaxIter,
                            DefaultTol).data,
               cols, eqs, res, shock, t + 1, t_end)

RunReform(x, shock, start_t, end_t, periods) ==
    /\ mode = "reform" /\ ~reform.done
    /\ \E eqs \in {swap_closure(equations, "DINV", GDPM_EQ)} :
         \E fr \in {ShockLoop([data |-> data, columns |-> columns], x, shock,
                              start_t, periods, 0)} :
           \E shocked_eqs \in {make_exogenous(eqs, x)} :
             reform' = [done |-> TRUE, var |-> x, shock |-> shock,
                        t_start |-> start_t, t_end |-> end_t,
                        periods |-> periods,
                        equations |-> eqs,
                        shocked_equations |-> shocked_eqs,
                        baseline_data |->
                            solve(data, columns, eqs, residuals, TRUE,
                                  start_t, end_t),
                        shocked_data |->
                            solve(fr.data, fr.columns, shocked_eqs, residuals,
                                  TRUE, start_t, end_t)]
    /\ last' = [op |-> "run_reform"]
    /\ UNCHANGED <<mode, index, names, fullVars, vdata, groups, run, nops>>

(***************************************************************************)
(* Specification.                                                          *)
(***************************************************************************)
Next ==
    \/ \E t \in Periods, a \in SolveArgs : SolvePeriod(t, a[1], a[2])
    \/ \E r \in SolveRanges : SolveBegin(r[1], r[2])
    \/ SolveStep
    \/ \E x \in Vars, eq \in SwapEquations : SwapClosure(x, eq)
    \/ \E x \in Vars : MakeExogenous(x)
    \/ \E x \in Vars, shock \in Shocks, sp \in ShockSpans :
         ApplyShock(x, shock, sp[1], sp[2])
    \/ \E t \in Periods, a \in SolveArgs : DirectSolvePeriod(t, a[1], a[2])
    \/ \E r \in SolveRanges, a \in SolveArgs :
         ModelRunBegin(r[1], r[2], a[1], a[2])
    \/ ModelRunStep
    \/ \E x \in Vars, shock \in Shocks, r \in SolveRanges, n \in 0 .. 2 :
         RunReform(x, shock, r[1], r[2], n)

Spec == Init /\ [][Next]_vars

(***************************************************************************)
(* The transpiler on its own: one expression is transpiled.  transpile     *)
(* keeps nothing from one call to the next.                                *)
(***************************************************************************)
TranspileInit ==
    /\ mode = "transpile"
    /\ index = period_range(HorizonStart, NumPeriods)
    /\ names = {}
    /\ run = NoRun
    /\ reform = NoReform
    /\ last = NoLast
    /\ nops = 0
    /\ vdata = NoData
    /\ groups = <<>>
    /\ InitFull(NoData, Vars, <<>>)

\* EViewsTranspiler().transpile(eviews_expr)
Transpile(e) ==
    /\ mode = "transpile" /\ nops = 0
    /\ last' = [op |-> "transpile", src |-> e, eviews_expr |-> Render(e),
                python_expr |-> transpile(Render(e))]
    /\ nops' = nops + 1
    /\ UNCHANGED <<mode, index, names, fullVars, vdata, groups, run, reform>>

TranspileNext == \E e \in TranspileSources : Transpile(e)

TranspileSpec == TranspileInit /\ [][TranspileNext]_vars

(***************************************************************************)
(* The Variables store on its own (variables.py, model.py): a store over a *)
(* horizon of NumPeriods quarters, empty or loaded, and calls of its       *)
(* methods.                                                                *)
(***************************************************************************)
StoreStarts == {<<2009, 1>>, <<2009, 3>>}
StoreNames == {"CGG", "DINV"}
\* Period arguments: inside the horizon, next to its ends, and beyond them.
StoreIndices ==
    {-(NumPeriods + 1), -NumPeriods, -1, 0, 1, NumPeriods - 1, NumPeriods}
\* Label arguments: quarters before, inside and after the horizons, and
\* labels that name no quarter.
StoreLabels ==
    {<<2008, 4>>, <<2009, 1>>, <<2009, 3>>, <<2009, 4>>, <<2010, 1>>,
     <<2011, 1>>, <<2009, 5>>, <<2009, 0>>}
StoreValues == {7}
\* The lags of a group's array reads, X[t - lag].
StoreLags == {1, 5}

TheStore == [index |-> index, names |-> names, data |-> vdata]

StoreInit ==
    /\ mode = "store"
    /\ \E start \in StoreStarts : index = period_range(start, NumPeriods)
    /\ \/ names = {} /\ vdata = NoData
       \/ names = Vars /\ vdata = DataB
    /\ run = NoRun
    /\ reform = NoReform
    /\ last = NoLast
    /\ nops = 0
    /\ groups = <<>>
    /\ InitFull(NoData, Vars, <<>>)

StoreCall == mode = "store" /\ nops < MaxOps
StoreFrame == UNCHANGED <<mode, index, fullVars, groups, run, reform>>

\* v.set(name, t, value)
StoreSet(name, t, value) ==
    /\ StoreCall
    /\ \E r \in {set(TheStore, name, t, value)} :
         /\ names' = r.store.names
         /\ vdata' = r.store.data
         /\ last' = [op |-> "set", name |-> name, t |-> t, value |-> value,
                     ok |-> r.ok, before |-> vdata]
    /\ nops' = nops + 1
    /\ StoreFrame

\* v.get(name, t)
StoreGet(name, t) ==
    /\ StoreCall
    /\ \E r \in {get(TheStore, name, t)} :
         /\ names' = r.store.names
         /\ vdata' = r.store.data
         /\ last' = [op |-> "get", name |-> name, t |-> t, ok |-> r.ok,
                     val |-> r.val, before |-> vdata]
    /\ nops' = nops + 1
    /\ StoreFrame

\* X = v[name]; X[t - lag] in a group's solve_t, which returns at once when
\* t < 1 (consumption.py 26-49).
ArrayRead(name, t, lag) ==
    /\ StoreCall
    /\ t >= 1
    /\ \E r \in {get(TheStore, name, t - lag)} :
         /\ names' = r.store.names
         /\ vdata' = r.store.data
         /\ last' = [op |-> "array_read", name |-> name, t |-> t - lag,
                     ok |-> r.ok, val |-> r.val, before |-> vdata]
    /\ nops' = nops + 1
    /\ StoreFrame

\* The store and the record left by a broadcast of value over name.
Broadcast(op, store, name, value) ==
    /\ names' = store.names
    /\ vdata' = store.data
    /\ last' = [op |-> op, name |-> name, value |-> value,
                existed |-> name \in names, before |-> vdata]

\* v[name] = value
SetItem(name, value) ==
    /\ StoreCall
    /\ Broadcast("setitem", __setitem__(TheStore, name, value), name, value)
    /\ nops' = nops + 1
    /\ StoreFrame

\* model.set(name, value)
ModelSet(name, value) ==
    /\ StoreCall
    /\ Broadcast("model_set", model_set(TheStore, name, value), name, value)
    /\ nops' = nops + 1
    /\ StoreFrame

\* v.period_to_idx(period_str)
PeriodToIdx(period_str) ==
    /\ StoreCall
    /\ \E r \in {period_to_idx(TheStore, period_str)} :
         last' = [op |-> "period_to_idx", period_str |-> period_str,
                  ok |-> r.ok, val |-> r.val]
    /\ nops' = nops + 1
    /\ UNCHANGED <<names, vdata>>
    /\ StoreFrame

\* solver.period_idx(period), on an index of the same kind
PeriodIdx(period) ==
    /\ StoreCall
    /\ \E r \in {period_idx(index, period)} :
         last' = [op |-> "period_idx", period_str |-> period,
                  ok |-> r.ok, val |-> r.val]
    /\ nops' = nops + 1
    /\ UNCHANGED <<names, vdata>>
    /\ StoreFrame

\* v.elem(name, period_str)
Elem(name, period_str) ==
    /\ StoreCall
    /\ \E r \in {elem(TheStore, name, period_str)} :
         /\ names' = r.store.names
         /\ vdata' = r.store.data
         /\ last' = [op |-> "elem", name |-> name, period_str |-> period_str,
                     ok |-> r.ok, val |-> r.val, before |-> vdata]
    /\ nops' = nops + 1
    /\ StoreFrame

\* The record left by a date comparison.
DateCall(op, t, period_str, r) ==
    /\ last' = [op |-> op, t |-> t, period_str |-> period_str,
                ok |-> r.ok, val |-> r.val]
    /\ nops' = nops + 1
    /\ UNCHANGED <<names, vdata>>
    /\ StoreFrame

\* v.date_equals(t, period_str)
DateEquals(t, period_str) ==
    StoreCall /\ DateCall("date_equals", t, period_str,
                          date_equals(TheStore, t, period_str))
\* v.date_gte(t, period_str)
DateGte(t, period_str) ==
    StoreCall /\ DateCall("date_gte", t, period_str,
                          date_gte(TheStore, t, period_str))
\* v.date_lte(t, period_str)
DateLte(t, period_str) ==
    StoreCall /\ DateCall("date_lte", t, period_str,
                          date_lte(TheStore, t, period_str))

StoreNext ==
    \/ \E name \in StoreNames, t \in StoreIndices, value \in StoreValues :
         StoreSet(name, t, value)
    \/ \E name \in StoreNames, t \in StoreIndices : StoreGet(name, t)
    \/ \E name \in StoreNames, t \in Periods, lag \in StoreLags :
         ArrayRead(name, t, lag)
    \/ \E name \in StoreNames, value \in StoreValues : SetItem(name, value)
    \/ \E name \in StoreNames, value \in StoreValues : ModelSet(name, value)
    \/ \E period_str \in StoreLabels : PeriodToIdx(period_str)
    \/ \E period \in StoreLabels : PeriodIdx(period)
    \/ \E name \in StoreNames, period_str \in StoreLabels : Elem(name, period_str)
    \/ \E t \in Periods \cup {NumPeriods}, period_str \in StoreLabels :
         DateEquals(t, period_str)
    \/ \E t \in Periods \cup {NumPeriods}, period_str \in StoreLabels :
         DateGte(t, period_str)
    \/ \E t \in Periods \cup {NumPeriods}, period_str \in StoreLabels :
         DateLte(t, period_str)

StoreSpec == StoreInit /\ [][StoreNext]_vars

(***************************************************************************)
(* Date dummies, trends and base-period lookups of the full-system solver. *)
(* The transpiler turns the EViews term into the text of a call; the       *)
(* solver evaluates the call through the entry of the context it built     *)
(* for identity initialization, residual computation or period solving.    *)
(***************************************************************************)
\* The values of a call's arguments: the name t, an int, the str of a
\* quarter, or another str.
NameArg == [ty |-> "name", n |-> 0, label |-> <<0, 0>>, text |-> "t"]
IntArg(n) == [ty |-> "int", n |-> n, label |-> <<0, 0>>, text |-> ""]
LabelArg(l) == [ty |-> "str", n |-> 0, label |-> l, text |-> "quarter"]
TextArg(s) == [ty |-> "str", n |-> 0, label |-> <<0, 0>>, text |-> s]

\* The outcome of a call: a value, or an exception.
Raised == [ok |-> FALSE, val |-> IntArg(0)]
Returned(x) == [ok |-> TRUE, val |-> x]

\* _convert_recode (transpiler.py 73-90) on a match m of its pattern: the
\* operator is any run of <, > and =, the date is "YYYY:QQ", the values are
\* unsigned integers.  The text is _recode(t, 'YYYYQq', 'op', a, b).
_convert_recode(m) ==
    [fn |-> "_recode",
     args |-> <<NameArg,
                LabelArg(<<m.year,
                           IF m.qq > 4 THEN ((m.qq - 1) % 4) + 1 ELSE m.qq>>),
                TextArg(m.op), IntArg(m.true_val), IntArg(m.false_val)>>]

\* _convert_trend (transpiler.py 92-101): the text is _trend(t, 'YYYYQq').
_convert_trend(m) ==
    [fn |-> "_trend", args |-> <<NameArg, LabelArg(<<m.year, m.q>>)>>]

\* _convert_elem (transpiler.py 58-71) with the transpiler's base values
\* tbase: the value as a literal, or the text _elem('VAR', 'YYYYQq').
_convert_elem(tbase, m) ==
    IF <<m.var, <<m.year, m.q>>>> \in DOMAIN tbase
    THEN [fn |-> "literal",
          args |-> <<IntArg(tbase[<<m.var, <<m.year, m.q>>>>])>>]
    ELSE [fn |-> "_elem",
          args |-> <<TextArg(m.var), LabelArg(<<m.year, m.q>>)>>]

\* parse_model_file builds its transpiler without base values (line 307).
TranspilerBaseValues == <<>>

\* The arguments as eval passes them: the name t is the context's t.
Passed(args, t) ==
    [i \in DOMAIN args |-> IF args[i].ty = "name" THEN IntArg(t) ELSE args[i]]

\* pd.Period(x, freq="Q"): the quarter of a label; of_int is what the
\* pandas build makes of an int (an exception or some period).
pd_Period(x, of_int) ==
    IF x.ty = "int" THEN of_int
    ELSE IF x.text = "quarter" THEN Period(x.label)
    ELSE [ok |-> FALSE, ordinal |-> 0]
PeriodOfInt ==
    { [ok |-> FALSE, ordinal |-> 0], [ok |-> TRUE, ordinal |-> 0],
      [ok |-> TRUE, ordinal |-> DataIndex[0]] }

\* FullOBRSolver._recode (lines 359-372)
_recode(idx, t, period, op, true_val, false_val, of_int) ==
    IF \/ ~pd_Period(period, of_int).ok
       \/ t.ty # "int"
       \/ ~InBounds(t.n, NumPeriods)
    THEN Raised
    ELSE LET target == pd_Period(period, of_int).ordinal
             current == idx[Position(t.n, NumPeriods)]
         IN  Returned(
               CASE op.text = "=" ->
                      IF current = target THEN true_val ELSE false_val
                 [] op.text = ">=" ->
                      IF current >= target THEN true_val ELSE false_val
                 [] op.text = "<=" ->
                      IF current <= target THEN true_val ELSE false_val
                 [] op.text = ">" ->
                      IF current > target THEN true_val ELSE false_val
                 [] op.text = "<" ->
                      IF current < target THEN true_val ELSE false_val
                 [] OTHER -> false_val)

\* FullOBRSolver._trend (lines 374-380): any exception gives 0.0.
_trend(idx, t, base, of_int) ==
    IF \/ ~pd_Period(base, of_int).ok
       \/ ~get_loc(idx, pd_Period(base, of_int).ordinal).ok
       \/ t.ty # "int"
    THEN Returned(IntArg(0))
    ELSE Returned(IntArg(t.n - get_loc(idx,
                                       pd_Period(base, of_int).ordinal).val))

\* FullOBRSolver._elem (lines 382-384)
_elem(values, var, period) ==
    IF var.ty = "str" /\ period.ty = "str"
       /\ <<var.text, period.label>> \in DOMAIN values
    THEN Returned(IntArg(values[<<var.text, period.label>>]))
    ELSE Returned(IntArg(NaN))

\* The places where the solver evaluates equations.
Contexts == {"_initialize_historical", "_compute_residuals", "solve_period"}

\* ctx["_recode"]: lambda period, op, tv, fv, t=t (lines 237, 301) and
\* lambda t_arg, period, op, tv, fv (line 462), called with a.
RecodeEntry(ctx, idx, t, a, of_int) ==
    IF ctx = "solve_period"
    THEN IF Len(a) # 5 THEN Raised
         ELSE _recode(idx, IntArg(t), a[2], a[3], a[4], a[5], of_int)
    ELSE IF Len(a) \notin {4, 5} THEN Raised
         ELSE _recode(idx, IF Len(a) = 5 THEN a[5] ELSE IntArg(t),
                      a[1], a[2], a[3], a[4], of_int)

\* ctx["_trend"]: lambda base, t=t (lines 238, 302) and lambda base
\* (line 463), called with a.
TrendEntry(ctx, idx, t, a, of_int) ==
    IF ctx = "solve_period"
    THEN IF Len(a) # 1 THEN Raised
         ELSE _trend(idx, IntArg(t), a[1], of_int)
    ELSE IF Len(a) \notin {1, 2} THEN Raised
         ELSE _trend(idx, IF Len(a) = 2 THEN a[2] ELSE IntArg(t), a[1],
                     of_int)

\* ctx["_elem"]: self._elem (lines 239, 303, 464), called with a.
ElemEntry(values, a) ==
    IF Len(a) # 2 THEN Raised ELSE _elem(values, a[1], a[2])

\* Variables.trend (variables.py 72-75)
trend(store, t, base_period) ==
    IF ~period_to_idx(store, base_period).ok THEN Raised
    ELSE Returned(IntArg(t - period_to_idx(store, base_period).val))

\* Matches of the transpiler's patterns in the equations of a model file.
RecodeOps == {"=", "<>", ">=", "<=", ">", "<", "=="}
RecodeSources ==
    [op : RecodeOps, year : {2009, 2010}, qq : {1, 4, 7},
     true_val : {1}, false_val : {0, 2}]
TrendSources == [year : {2009, 2010, 1970}, q : {1, 3, 4}]
ElemSources == [var : Vars, year : {2009, 2010}, q : {1, 3, 4}]
TermScenarios == { <<DataA, Chain>>, <<DataB, Chain>>, <<DataD, Growth>> }

TermInit ==
    /\ mode = "term"
    /\ index = DataIndex
    /\ names = {}
    /\ vdata = NoData
    /\ groups = <<>>
    /\ run = NoRun
    /\ reform = NoReform
    /\ last = NoLast
    /\ nops = 0
    /\ \E sc \in TermScenarios :
         \E c0 \in LoadedColumns(sc[1]) : InitFull(sc[1], c0, sc[2])

\* One evaluation: it changes nothing of the solver.
TermCall == mode = "term" /\ nops = 0
TermFrame ==
    /\ nops' = nops + 1
    /\ UNCHANGED <<mode, index, names, fullVars, vdata, groups, run, reform>>

\* eval of a transpiled @recode term at period t in a context.
EvalRecode(ctx, m, t, of_int) ==
    /\ TermCall
    /\ last' = [op |-> "_recode", ctx |-> ctx, t |-> t, src |-> m,
                ret |-> RecodeEntry(ctx, index, t,
                                    Passed(_convert_recode(m).args, t),
                                    of_int)]
    /\ TermFrame

\* eval of a transpiled @TREND term at period t in a context.
EvalTrend(ctx, m, t, of_int) ==
    /\ TermCall
    /\ last' = [op |-> "_trend", ctx |-> ctx, t |-> t, src |-> m,
                ret |-> TrendEntry(ctx, index, t,
                                   Passed(_convert_trend(m).args, t), of_int)]
    /\ TermFrame

\* eval of a transpiled @elem term at period t in a context.
EvalElem(ctx, m, t) ==
    /\ TermCall
    /\ last' = [op |-> "_elem", ctx |-> ctx, t |-> t, src |-> m,
                ret |-> IF _convert_elem(TranspilerBaseValues, m).fn = "_elem"
                        THEN ElemEntry(base_values,
                               Passed(_convert_elem(TranspilerBaseValues,
                                                    m).args, t))
                        ELSE Returned(_convert_elem(TranspilerBaseValues,
                                                    m).args[1])]
    /\ TermFrame

\* v.trend(t, base_period) on a store over the same horizon.
StoreTrend(t, base_period) ==
    /\ TermCall
    /\ last' = [op |-> "trend", ctx |-> "Variables", t |-> t,
                src |-> [year |-> base_period[1], q |-> base_period[2]],
                ret |-> trend(TheStore, t, base_period)]
    /\ TermFrame

TermNext ==
    \/ \E ctx \in Contexts, m \in RecodeSources, t \in Periods,
          of_int \in PeriodOfInt : EvalRecode(ctx, m, t, of_int)
    \/ \E ctx \in Contexts, m \in TrendSources, t \in Periods,
          of_int \in PeriodOfInt : EvalTrend(ctx, m, t, of_int)
    \/ \E ctx \in Contexts, m \in ElemSources, t \in Periods :
         EvalElem(ctx, m, t)
    \/ \E t \in Periods, m \in TrendSources : StoreTrend(t, <<m.year, m.q>>)

TermSpec == TermInit /\ [][TermNext]_vars

(***************************************************************************)
(* Properties.                                                             *)
(***************************************************************************)
\* The passes of a finished solve_period call whose metric met the tolerance.
MetPasses == { k \in 1 .. Len(last.metrics) : FracLess(last.metrics[k], last.tol) }

\* C1: solve_period (solver.solve_period and FullOBRSolver.solve_period)
\* makes at most max_iter passes and returns k with 1 <= k <= max_iter,
\* where k is the number of the first pass whose convergence metric is
\* below tol, or max_iter when no pass meets it.
C1_IterationCount ==
    last.op = "solve_period" =>
      /\ last.passes = Len(last.metrics)
      /\ last.passes \in 1 .. last.max_iter
      /\ last.ret \in 1 .. last.max_iter
      /\ IF MetPasses = {}
         THEN last.ret = last.max_iter /\ last.passes = last.max_iter
         ELSE /\ last.ret \in MetPasses
              /\ \A k \in MetPasses : last.ret <= k
              /\ last.passes = last.ret

\* A call with max_iter > 1 where no pass met the tolerance.
C1_Witness ==
    /\ last.op = "solve_period"
    /\ last.max_iter > 1
    /\ MetPasses = {}
    /\ last.ret = last.max_iter

\* A change from old to new that exceeds tol relative to a finite, nonzero
\* old value.
ExceedsTol(old, new, tol) ==
    /\ isfinite(old) /\ old # 0 /\ isfinite(new)
    /\ FracLess(tol, <<Abs(new - old), Abs(old)>>)
SomeExceeds(before, after, t, tol) ==
    \E x \in Vars : ExceedsTol(before[x][t], after[x][t], tol)

\* A change the pass's metric counts that is not below tol: relative to a
\* finite old value from which the store's change is measured, or absolute
\* (direct mode) when the old value is zero or not finite.
NotBelowTol(old, new, tol, absolute) ==
    IF isfinite(old) /\ old # 0 /\ (absolute => isfinite(new))
    THEN ~FracLess(<<Abs(new - old), Abs(old)>>, tol)
    ELSE absolute /\ isfinite(old) /\ isfinite(new)
         /\ ~FracLess(<<Abs(new - old), 1>>, tol)

\* C2 as stated: if solve_period returns less than max_iter, one more
\* execution of the same ordered equations (groups) from the resulting
\* state changes no variable at period t by more than tol in relative terms.
C2_RerunWithinTol ==
    (last.op = "solve_period" /\ last.ret < last.max_iter) =>
      ~SomeExceeds(IF mode = "direct" THEN vdata ELSE data,
                   IF mode = "direct"
                   THEN RunGroups(vdata, groups, 1, last.t)
                   ELSE RunEquations(PassStart(data, columns, last.t),
                                     equations, 1, columns, residuals,
                                     shock_active, last.t).data,
                   last.t, last.tol)

\* C2 amended: if solve_period returns k < max_iter, then pass k, the last
\* one executed, changed no value the convergence metric counts by tol or
\* more: in direct mode no variable at period t (relative to a finite
\* nonzero old value, absolute otherwise), in the full solver no committed
\* update of a finite old value of magnitude above 1e-10.
C2_LastPassBelowTol ==
    (last.op = "solve_period" /\ last.ret < last.max_iter) =>
      IF mode = "direct"
      THEN \A x \in Vars :
             ~NotBelowTol(last.before[x][last.t], vdata[x][last.t],
                          last.tol, TRUE)
      ELSE \A i \in 1 .. Len(last.log) :
             ~NotBelowTol(last.log[i].old, last.log[i].new, last.tol, FALSE)

\* A full-solver call that returned before the cap although its last pass
\* changed a value.
C2_Witness ==
    /\ mode = "full"
    /\ last.op = "solve_period"
    /\ last.ret < last.max_iter
    /\ \E i \in 1 .. Len(last.log) :
         /\ isfinite(last.log[i].old) /\ last.log[i].old # 0
         /\ last.log[i].new # last.log[i].old

\* The two stores agree at every period outside start..end.
SameOutside(d1, d2, start_t, end_t) ==
    \A x \in Vars, p \in Periods :
        (p < start_t \/ p > end_t) => d1[x][p] = d2[x][p]

\* C3: a horizon solve over start..end (solver.solve_model,
\* OBRMacroModel.run, FullOBRSolver.solve) writes only at the periods
\* start..end: no step of the solve changes a value stored at a period
\* before start or after end, and the stores run_reform solves differ
\* from their starting data only inside the range.
C3_WritesOnlyInRange ==
    [][/\ run.pc = "solving" =>
            /\ SameOutside(data, data', run.t_start, run.t_end)
            /\ SameOutside(vdata, vdata', run.t_start, run.t_end)
       /\ (reform'.done /\ ~reform.done) =>
            SameOutside(data, reform'.baseline_data, reform'.t_start,
                        reform'.t_end)]_vars

\* A finished solve of period 1 alone, the first operation on the solver,
\* that changed a value at period 1.
C3_Witness ==
    /\ mode = "full" /\ nops = 1
    /\ last.op = "solve" /\ last.t_start = 1 /\ last.t_end = 1
    /\ \E x \in Vars : data[x][1] # baseline[x][1]
    /\ SameOutside(data, baseline, 1, 1)

\* The periods start..end in increasing order.
RangeSeq(start_t, end_t) ==
    [i \in 1 .. (end_t - start_t + 1) |-> start_t + i - 1]

\* results maps the periods solved so far, old with period t added.
Extends(results, old, t, iters) ==
    /\ DOMAIN results = DOMAIN old \cup {t}
    /\ results[t] = iters
    /\ \A k \in DOMAIN old \ {t} : results[k] = old[k]

\* One step of a running horizon solve: it solves period run.t and no
\* other, records its iteration count, and goes on to run.t + 1 or returns.
HorizonStep(iters) ==
    /\ SameOutside(data, data', run.t, run.t)
    /\ SameOutside(vdata, vdata', run.t, run.t)
    /\ run.order = RangeSeq(run.t_start, run.t - 1)
    /\ DOMAIN run.results = run.t_start .. (run.t - 1)
    /\ IF run.t < run.t_end
       THEN /\ run'.pc = "solving" /\ run'.t = run.t + 1
            /\ run'.order = Append(run.order, run.t)
            /\ Extends(run'.results, run.results, run.t, iters)
       ELSE /\ run'.pc = "idle" /\ last'.op = "solve"
            /\ last'.order = RangeSeq(run.t_start, run.t_end)
            /\ DOMAIN last'.results = run.t_start .. run.t_end
            /\ Extends(last'.results, run.results, run.t, iters)

\* The call of a horizon solve: nothing is solved yet, and with
\* start > end the call returns the empty mapping at once.
HorizonCall ==
    /\ data' = data /\ vdata' = vdata
    /\ IF last'.op = "solve"
       THEN /\ last'.t_start > last'.t_end
            /\ last'.results = <<>> /\ last'.order = <<>>
            /\ run'.pc = "idle"
       ELSE /\ run'.pc = "solving"
            /\ run'.t_start <= run'.t_end /\ run'.t = run'.t_start
            /\ run'.results = <<>> /\ run'.order = <<>>

\* C4: the horizon solver runs the period solver exactly once for each
\* period of start..end, in strictly increasing order, never returning to a
\* solved period, and returns a mapping whose keys are exactly start..end,
\* each mapped to that period's iteration count; with start > end nothing
\* is solved and the mapping is empty.
C4_OncePerPeriodInOrder ==
    [][/\ run.pc = "solving" =>
            HorizonStep(IF mode = "direct"
                        THEN direct_solve_period(vdata, groups, run.t,
                                                 run.max_iter, run.tol).ret
                        ELSE solve_period(data, columns, equations,
                                          residuals, shock_active, run.t,
                                          run.max_iter, run.tol).ret)
       /\ (run.pc = "idle" /\ last'.op \in {"solve", "solve_begin"}) =>
            HorizonCall]_vars

\* A finished solve of the whole horizon.
C4_Witness ==
    /\ last.op = "solve"
    /\ last.t_start = 0 /\ last.t_end = NumPeriods - 1
    /\ last.order = RangeSeq(0, NumPeriods - 1)

\* C5 as stated: for every non-identity equation (ratio, dlog or d form)
\* and every period t with a residual stored at construction, solve_period(t)
\* in non-shock mode on the constructed solver leaves var[t] equal to its
\* original historical value.
C5_ResidualReproducesHistory ==
    (mode = "full" /\ nops = 1 /\ last.op = "solve_period"
       /\ ~shock_active) =>
      \A i \in 1 .. Len(equations) :
        (IsBehavioral(equations[i])
           /\ <<equations[i].var, last.t>> \in DOMAIN residuals) =>
          data[equations[i].var][last.t] = baseline[equations[i].var][last.t]

\* The variables the equations compute, and the periods run_reform both
\* shocked and solved.
Endogenous(eqs) == { eqs[i].var : i \in 1 .. Len(eqs) }
Readers(eqs, x) == { i \in 1 .. Len(eqs) : x \in RhsVars(eqs[i].rhs) }
ShockedSolved ==
    { p \in Periods : /\ reform.t_start <= p /\ p <= reform.t_end
                      /\ p < reform.t_start + reform.periods }

RuleValue(form, L, r) ==
    CASE form = "ratio" -> L * r
      [] form = "dlog" -> L * (2 ^ r)
      [] form = "d" -> L + r
      [] form = "bare" -> r

\* The lag V[t-1] as the store holds it.
StoredLag(x, t) ==
    IF x \in columns /\ t >= 1 THEN data[x][t - 1] ELSE NaN

\* C7: the value FullOBRSolver.solve_period commits for an equation of
\* variable V at period t with RHS value r and lag L = V[t-1] is L*r for the
\* ratio form, L*exp(r) for dlog, L+r for d and r for a bare V, plus the
\* stored residual for (V, t) (zero if none) in non-shock mode and plus
\* nothing in shock mode.
C7_UpdateRule ==
    (mode = "full" /\ last.op = "solve_period") =>
      \A i \in 1 .. Len(last.log) :
        /\ last.log[i].form # "bare" =>
             last.log[i].lag = StoredLag(last.log[i].var, last.t)
        /\ last.log[i].new =
             Add(RuleValue(last.log[i].form, last.log[i].lag, last.log[i].rhs),
                 IF shock_active THEN 0
                 ELSE IF <<last.log[i].var, last.t>> \in DOMAIN residuals
                      THEN residuals[<<last.log[i].var, last.t>>] ELSE 0)
        /\ (last.log[i].stored
              /\ \A j \in (i + 1) .. Len(last.log) :
                    last.log[j].var # last.log[i].var) =>
             data[last.log[i].var][last.t] = last.log[i].new

\* A non-shock call that committed a ratio-form update with a nonzero
\* residual.
C7_Witness ==
    /\ mode = "full" /\ last.op = "solve_period" /\ ~shock_active
    /\ \E i \in 1 .. Len(last.log) :
         /\ last.log[i].form = "ratio"
         /\ <<last.log[i].var, last.t>> \in DOMAIN residuals
         /\ residuals[<<last.log[i].var, last.t>>] # 0

\* The value apply_shock leaves in var at period p.
ShockedValue(d, cols, x, shock, start_t, periods, p) ==
    IF start_t <= p /\ p < start_t + periods
    THEN Add(_get(d, cols, x, p), shock)
    ELSE d[x][p]

\* C8: after make_exogenous(var), and until an equation for var is
\* registered again, no solve_period and no step of solve changes var at
\* any period; the value apply_shock wrote into the exogenous var is what
\* run_reform's shocked solve leaves there.
C8_ExogenousUntouched ==
    [][/\ (mode = "full"
            /\ last'.op \in {"solve_period", "solve_step", "solve"}) =>
            \A x \in exo, p \in Periods : data'[x][p] = data[x][p]
       /\ (reform'.done /\ ~reform.done) =>
            \A p \in Periods :
              reform'.shocked_data[reform'.var][p] =
                ShockedValue(data, columns, reform'.var, reform'.shock,
                             reform'.t_start, reform'.periods, p)]_vars

\* A solve_period after apply_shock on a variable that had an equation at
\* construction: the call changed the store and the shocked value is kept.
C8_Witness ==
    /\ mode = "full" /\ last.op = "solve_period" /\ Len(last.log) > 0
    /\ \E x \in exo :
         /\ <<x, last.t>> \in DOMAIN residuals
         /\ isfinite(baseline[x][last.t])
         /\ data[x][last.t] = baseline[x][last.t] + 2

\* kept holds exactly the equations of old whose LHS variable is not x,
\* unchanged and in their previous relative order.
KeptInOrder(old, kept, x) ==
    LET keep == { i \in 1 .. Len(old) : old[i].var # x }
    IN  /\ Len(kept) = Cardinality(keep)
        /\ \A i \in keep :
             kept[Cardinality({ j \in keep : j <= i })] = old[i]
        /\ \A k \in 1 .. Len(kept) : kept[k].var # x

\* new is old after swap_closure(remove_var, add_eq).
Swapped(old, new, remove_var, add_eq) ==
    /\ Len(new) >= 1
    /\ new[Len(new)] = add_eq
    /\ KeptInOrder(old, SubSeq(new, 1, Len(new) - 1), remove_var)
    /\ (\A i \in 1 .. Len(old) : old[i].var # remove_var) =>
         new = Append(old, add_eq)

\* C9: after swap_closure(remove_var, new_eq) the equation list holds no
\* equation of the previous list whose LHS variable is remove_var, holds
\* new_eq (appended last), and holds every other previous equation
\* unchanged and in its previous relative order; a remove_var that no
\* equation computes removes nothing.
C9_SwapClosure ==
    [][/\ last'.op = "swap_closure" =>
            Swapped(equations, equations', last'.var, last'.eq)
       /\ (reform'.done /\ ~reform.done) =>
            Swapped(equations, reform'.equations, "DINV", GDPM_EQ)]_vars

\* A swap_closure, the first operation on the solver, that removed an
\* equation the solver was built with and kept another.
C9_Witness ==
    /\ mode = "full" /\ nops = 1 /\ last.op = "swap_closure"
    /\ \E t \in Periods : <<last.var, t>> \in DOMAIN residuals
    /\ Len(equations) >= 2
    /\ \A i \in 1 .. Len(equations) - 1 : equations[i].var # last.var

\* C10: apply_shock(var, delta, start, periods) removes var's equation,
\* adds delta exactly once to var at each of the periods
\* index(start) .. index(start)+periods-1 inside the horizon, leaves every
\* other period of var and every other variable unchanged, and puts the
\* solver in shock mode.
C10_ApplyShock ==
    [][last'.op = "apply_shock" =>
         /\ KeptInOrder(equations, equations', last'.var)
         /\ shock_active'
         /\ \A x \in Vars, p \in Periods :
              data'[x][p] =
                IF x = last'.var /\ last'.t <= p
                   /\ p < last'.t + last'.periods
                THEN Add(data[x][p], last'.shock)
                ELSE data[x][p]]_vars

\* An apply_shock, the first operation on the solver, on a variable that
\* had an equation, over two periods of which only the last period of the
\* horizon is inside it.
C10_Witness ==
    /\ mode = "full" /\ nops = 1 /\ last.op = "apply_shock"
    /\ last.t = NumPeriods - 1 /\ last.periods = 2
    /\ <<last.var, last.t>> \in DOMAIN residuals
    /\ data[last.var][last.t] = baseline[last.var][last.t] + last.shock
    /\ shock_active

\* The Python text that refers to every variable of the expression e at its
\* natural period shifted k periods back: a bare VAR at t - k, VAR(-n) at
\* t - n - k, dlog(E) as log(E) - log(E one period earlier) and d(E) as
\* (E) - (E one period earlier).
RECURSIVE Meaning(_, _)
Meaning(e, k) ==
    CASE e[1] = "var" -> IF k = 0 THEN VRef(e[2]) ELSE LagRef(e[2], k)
      [] e[1] = "lag" -> LagRef(e[2], e[3] + k)
      [] e[1] = "num" -> e[2]
      [] e[1] = "bin" ->
           Meaning(e[2], k) \o (IF e[3] = "^" THEN <<"*", "*">> ELSE <<e[3]>>)
           \o Meaning(e[4], k)
      [] e[1] = "par" -> <<"(">> \o Meaning(e[2], k) \o <<")">>
      [] e[1] = "call" /\ e[2] = F_dlog ->
           <<"(">> \o T_nplog \o Meaning(e[3], k) \o <<")", " ", "-", " ">>
           \o T_nplog \o Meaning(e[3], k + 1) \o <<")", ")">>
      [] e[1] = "call" /\ e[2] = F_d ->
           <<"(", "(">> \o Meaning(e[3], k) \o <<")", " ", "-", " ", "(">>
           \o Meaning(e[3], k + 1) \o <<")", ")">>
      [] OTHER -> <<"n", "p", ".">> \o e[2] \o <<"(">> \o Meaning(e[3], k)
                  \o <<")">>

\* A store with PCE[t] = 120 and PCE[t-1] = 100 at t = 1, and the value a
\* reference of the Python text has in the solver's evaluation context.
PCEFrame == [x \in {PCE} |-> [t \in Periods |-> IF t = 1 THEN 120 ELSE 100]]
RefTexts == {VRef(PCE)} \cup { LagRef(PCE, n) : n \in 1 .. MaxLag }
RefValue(ref, t) ==
    IF ref = VRef(PCE) THEN _get(PCEFrame, {PCE}, PCE, t)
    ELSE _lag(PCEFrame, {PCE}, PCE,
              CHOOSE n \in 1 .. MaxLag : ref = LagRef(PCE, n), t)

\* C11 as stated: transpiling dlog(E) yields log(E_cur) - log(E_lag) and
\* transpiling d(E) yields (E_cur) - (E_lag), where E_cur refers to every
\* variable of E at its natural period and E_lag to every variable one
\* period earlier; dlog(PCE) evaluated with PCE[t] = 120 and PCE[t-1] = 100
\* is log(120) - log(100).
C11_DifferenceOperators ==
    (mode = "transpile" /\ last.op = "transpile") =>
      /\ last.python_expr = Meaning(last.src, 0)
      /\ last.src = Call(F_dlog, Var(PCE)) =>
           \E r1, r2 \in RefTexts :
             /\ last.python_expr =
                  <<"(">> \o T_nplog \o r1 \o <<")", " ", "-", " ">>
                  \o T_nplog \o r2 \o <<")", ")">>
             /\ RefValue(r1, 1) = 120
             /\ RefValue(r2, 1) = 100

(***************************************************************************)
(* The store: the calendar, told without the ordinals of the index.        *)
(***************************************************************************)
NextQuarter(label) ==
    IF label[2] = 4 THEN <<label[1] + 1, 1>> ELSE <<label[1], label[2] + 1>>
RECURSIVE QuarterAfter(_, _)
QuarterAfter(label, k) ==
    IF k = 0 THEN label ELSE QuarterAfter(NextQuarter(label), k - 1)
\* Calendar order of two quarter labels.
Earlier(a, b) == a[1] < b[1] \/ (a[1] = b[1] /\ a[2] < b[2])
\* The first quarter of the store's horizon, and the quarter of index t.
StoreStart == CHOOSE s \in StoreStarts : index = period_range(s, NumPeriods)
HorizonLabel(t) == QuarterAfter(StoreStart, t)
HorizonLabels == { HorizonLabel(t) : t \in Periods }
IndexLookups == {"period_to_idx", "period_idx"}

ElementCalls == {"get", "set", "array_read"}

\* C13: a get or a set at a t outside 0 .. n-1, a negative index of a lag
\* before the first period included, fails or yields NaN, and leaves the
\* value of every period of the horizon as it was.
C13_OutsideHorizon ==
    (mode = "store" /\ last.op \in ElementCalls /\ last.t \notin Periods) =>
      /\ last.op # "set" => (~last.ok \/ isnan(last.val))
      /\ \A x \in Vars, p \in Periods : vdata[x][p] = last.before[x][p]

\* The broadcast assignments: v[name] = c, and model.set(name, c), which is
\* v[name][:] = c.
Broadcasts == {"setitem", "model_set"}

\* C14: after a broadcast of c over name, get(name, t) succeeds and is c at
\* every period t of the horizon, whatever the series held before and
\* whether or not it existed.
C14_BroadcastThenGet ==
    (mode = "store" /\ last.op \in Broadcasts) =>
      \A t \in Periods :
        /\ get(TheStore, last.name, t).ok
        /\ get(TheStore, last.name, t).val = last.value
\* A broadcast over a series that held other values, not all the same.
C14_Witness ==
    /\ mode = "store"
    /\ last.op = "setitem"
    /\ last.existed
    /\ \E t, u \in Periods :
         /\ last.before[last.name][t] # last.before[last.name][u]
         /\ last.before[last.name][t] # last.value
         /\ last.before[last.name][u] # last.value

\* C15: for a label of the horizon, elem(name, label) succeeds and returns
\* get(name, index_of(label)): the value stored for name at that quarter.
C15_ElemIsGetAtIndex ==
    (mode = "store" /\ last.op = "elem" /\ last.period_str \in HorizonLabels) =>
      /\ last.ok
      /\ \E t \in Periods :
           /\ HorizonLabel(t) = last.period_str
           /\ last.val = last.before[last.name][t]
      /\ last.val = get(TheStore, last.name,
                        period_to_idx(TheStore, last.period_str).val).val
\* elem returned a number stored at a quarter after the first, where the
\* first quarter holds another value.
C15_Witness ==
    /\ mode = "store"
    /\ last.op = "elem"
    /\ last.ok
    /\ isfinite(last.val)
    /\ last.period_str # StoreStart
    /\ last.val # last.before[last.name][0]

\* Whether the date predicate op holds of quarter a and label b, in calendar
\* order.
DateHolds(op, a, b) ==
    CASE op = "date_equals" -> a = b
      [] op = "date_gte" -> ~Earlier(a, b)
      [] op = "date_lte" -> ~Earlier(b, a)
DatePredicates == {"date_equals", "date_gte", "date_lte"}

\* C16: for a period t of the horizon and a quarter label L, a date predicate
\* returns the number 1 or the number 0: 1 exactly when the
\* quarter of t equals L, is not before L, is not after L.
C16_DatePredicates ==
    (/\ mode = "store"
     /\ last.op \in DatePredicates
     /\ last.t \in Periods
     /\ last.period_str[2] \in 1 .. 4) =>
      /\ last.ok
      /\ last.val \in {0, 1}
      /\ (last.val = 1) <=>
           DateHolds(last.op, HorizonLabel(last.t), last.period_str)
\* date_gte returned 1 at the quarter L itself, a quarter of a later year
\* than the first of the horizon.
C16_Witness ==
    /\ mode = "store"
    /\ last.op = "date_gte"
    /\ last.t \in Periods
    /\ last.val = 1
    /\ HorizonLabel(last.t) = last.period_str
    /\ last.period_str[1] > StoreStart[1]

(***************************************************************************)
(* The solvers: what a pass does and what the count tells.                 *)
(***************************************************************************)
\* C17 as stated: the count returned by solve_period equals max_iter exactly
\* when no pass met the tolerance, and is below max_iter exactly when one
\* did.
C17_CountTellsConvergence ==
    last.op = "solve_period" =>
      /\ (last.ret = last.max_iter) <=> (MetPasses = {})
      /\ (last.ret < last.max_iter) <=> (MetPasses # {})

\* C17, amended: a count below max_iter is the number of a pass that met the
\* tolerance; when no pass met it the count is max_iter; a count of max_iter
\* is also returned when the pass numbered max_iter, and no earlier one,
\* met the tolerance.
C17_CountBelowCapConverged ==
    last.op = "solve_period" =>
      /\ last.ret < last.max_iter =>
           /\ last.ret \in 1 .. Len(last.metrics)
           /\ FracLess(last.metrics[last.ret], last.tol)
      /\ MetPasses = {} => last.ret = last.max_iter
      /\ (last.ret = last.max_iter /\ MetPasses # {}) =>
           MetPasses = {last.max_iter}
\* solver.solve_period returned max_iter > 1 and its last pass met the
\* tolerance.
C17_Witness ==
    /\ mode = "direct"
    /\ last.op = "solve_period"
    /\ last.max_iter > 1
    /\ last.ret = last.max_iter
    /\ MetPasses = {last.max_iter}

\* The members of the list a finished solve_period call went through, as
\* the passes recorded them, the store each member found and the store it
\* left: for a group the arrays, for an equation the DataFrame and the
\* context dict.
Members == IF mode = "direct" THEN groups ELSE equations
Executed(k) == IF mode = "direct" THEN last.calls[k] ELSE last.trace[k]
MemberOf(e) == IF mode = "direct" THEN e.group ELSE e.eq
Found(e) == IF mode = "direct" THEN e.data ELSE <<e.data, e.v, e.vkeys>>
Left(e) ==
    IF mode = "direct" THEN e.data_left
    ELSE <<e.data_left, e.v_left, e.vkeys_left>>
\* The store when the call returned.
FinalData == IF mode = "direct" THEN vdata ELSE data

\* C18: in every pass of solve_period every member of the list (the groups
\* in direct mode, the equations in full-system mode) is executed once, in
\* list order; a member finds the store as the member before it left it
\* (the first member of a pass as the pass before left it), so it reads
\* the values written earlier in the same pass; a group that assigns
\* X[t] = Y[t] + c stores the Y[t] left by the member before it.
C18_ListOrderGaussSeidel ==
    (last.op = "solve_period" /\ mode \in {"direct", "full"}) =>
      /\ \A k \in 1 .. last.passes :
           /\ Len(Executed(k)) = Len(Members)
           /\ \A i \in 1 .. Len(Members) :
                /\ MemberOf(Executed(k)[i]) = Members[i]
                /\ i > 1 => Found(Executed(k)[i]) = Left(Executed(k)[i - 1])
                /\ (i = 1 /\ k > 1) =>
                     Executed(k)[i].data =
                       Executed(k - 1)[Len(Members)].data_left
      /\ Len(Members) > 0 =>
           Executed(last.passes)[Len(Members)].data_left = FinalData
      /\ mode = "direct" =>
           \A k \in 1 .. last.passes, i \in 2 .. Len(groups) :
             (/\ last.t >= 1
              /\ Len(groups[i]) = 1
              /\ groups[i][1].form = "bare"
              /\ groups[i][1].rhs.op = "var") =>
               last.calls[k][i].data_left[groups[i][1].var][last.t] =
                 Add(last.calls[k][i - 1].data_left[groups[i][1].rhs.x][last.t],
                     groups[i][1].rhs.c)
\* A pass of solver.solve_period in which the second group read a value
\* the first group had just changed.
C18_Witness ==
    /\ mode = "direct"
    /\ last.op = "solve_period"
    /\ last.t >= 1
    /\ Len(groups) = 2
    /\ groups[1] # groups[2]
    /\ Len(groups[2]) = 1
    /\ groups[2][1].form = "bare"
    /\ groups[2][1].rhs.op = "var"
    /\ \E x \in Vars :
         /\ groups[2][1].rhs.x = x
         /\ last.calls[1][1].data[x][last.t] # last.calls[1][1].data_left[x][last.t]
         /\ isfinite(last.calls[1][1].data_left[x][last.t])
         /\ last.calls[1][2].data_left[groups[2][1].var][last.t] =
              Add(last.calls[1][1].data_left[x][last.t], groups[2][1].rhs.c)

\* The store before and after pass k of a finished solver.solve_period call
\* (every group list has a member).
PassBefore(k) == last.calls[k][1].data
PassAfter(k) == last.calls[k][Len(groups)].data_left

FracEq(a, b) == a[1] * b[2] = b[1] * a[2]
\* m is the maximum of 0 and the changes of all variables at period t.
IsMetric(m, before, after, t, Change(_, _)) ==
    /\ \A x \in Vars : ~FracLess(m, Change(before[x][t], after[x][t]))
    /\ \/ FracEq(m, <<0, 1>>)
       \/ \E x \in Vars : FracEq(m, Change(before[x][t], after[x][t]))

\* The change of one variable as C19 states it: relative to old whenever
\* old is finite and nonzero (nothing when that is NaN), else the absolute
\* change when finite, else nothing.
StatedChange(old, new) ==
    IF isfinite(old) /\ old # 0
    THEN (IF isnan(new) THEN <<0, 1>>
          ELSE IF isinf(new) THEN Unbounded
          ELSE <<Abs(new - old), Abs(old)>>)
    ELSE IF isfinite(Sub(new, old)) THEN <<Abs(new - old), 1>>
    ELSE <<0, 1>>
\* The change of one variable, amended: relative to old only when the new
\* value is finite too.
FiniteChange(old, new) ==
    IF isfinite(old) /\ old # 0 /\ isfinite(new)
    THEN <<Abs(new - old), Abs(old)>>
    ELSE IF isfinite(Sub(new, old)) THEN <<Abs(new - old), 1>>
    ELSE <<0, 1>>

DirectCall == mode = "direct" /\ last.op = "solve_period"

\* C19 as stated: the metric of every pass of solver.solve_period is the
\* maximum over all variables of |new - old| / |old| when old is finite and
\* nonzero, else of |new - old| when finite, else of 0.
C19_MetricAsStated ==
    DirectCall =>
      \A k \in 1 .. last.passes :
        IsMetric(last.metrics[k], PassBefore(k), PassAfter(k), last.t,
                 StatedChange)

\* C19, amended: the metric of every pass is the maximum over all variables
\* of |new - old| / |old| when old and new are finite and old is nonzero,
\* else of |new - old| when that difference is finite, else of 0: a new
\* value that is infinite or NaN adds nothing, whatever old is.
C19_MetricOfFiniteChanges ==
    DirectCall =>
      \A k \in 1 .. last.passes :
        IsMetric(last.metrics[k], PassBefore(k), PassAfter(k), last.t,
                 FiniteChange)
\* A pass took one variable from a finite nonzero value to an infinite one
\* and its metric is the relative change of another.
C19_Witness ==
    /\ DirectCall
    /\ \E x \in Vars :
         /\ isfinite(PassBefore(1)[x][last.t])
         /\ PassBefore(1)[x][last.t] # 0
         /\ isinf(PassAfter(1)[x][last.t])
    /\ last.metrics[1][1] > 0
    /\ last.metrics[1][2] > 1

\* C20: in FullOBRSolver.solve_period an equation whose evaluation raises
\* leaves the DataFrame, the context dict and max_change of the pass as it
\* found them; the pass still goes through every equation after it; and
\* the call returns a count.
C20_RaiseIsSkipped ==
    (mode = "full" /\ last.op = "solve_period") =>
      /\ last.ret \in 1 .. last.max_iter
      /\ \A k \in 1 .. last.passes :
           /\ Len(last.trace[k]) = Len(equations)
           /\ \A i \in 1 .. Len(equations) :
                /\ last.trace[k][i].eq = equations[i]
                /\ ~last.trace[k][i].ok =>
                     /\ last.trace[k][i].data_left = last.trace[k][i].data
                     /\ last.trace[k][i].v_left = last.trace[k][i].v
                     /\ last.trace[k][i].vkeys_left = last.trace[k][i].vkeys
                     /\ last.trace[k][i].mc_left = last.trace[k][i].mc
\* The first equation of a pass raised and the second one stored a new
\* value that counts in max_change.
C20_Witness ==
    /\ mode = "full"
    /\ last.op = "solve_period"
    /\ Len(equations) = 2
    /\ ~last.trace[1][1].ok
    /\ last.trace[1][2].ok
    /\ last.trace[1][2].data_left # last.trace[1][2].data
    /\ last.trace[1][2].mc_left # last.trace[1][2].mc

(***************************************************************************)
(* The equation index, the residuals and the shock mode of a solver.       *)
(***************************************************************************)
\* The positions of the equations of the list that compute x.
Computing(x) == { i \in 1 .. Len(equations) : _extract_lhs_var(equations[i]) = x }

\* C21 as stated: eq_for_var has an entry for a variable iff the list holds
\* an equation computing it, and the entry is the single equation of the
\* list that computes the variable.
C21_SingleEquationIndexed ==
    mode = "full" =>
      /\ DOMAIN eq_for_var = { x \in Vars : Computing(x) # {} }
      /\ \A x \in DOMAIN eq_for_var :
           /\ Cardinality(Computing(x)) = 1
           /\ \A i \in Computing(x) : eq_for_var[x] = equations[i]

\* C21, amended: eq_for_var has an entry for a variable iff the list holds
\* an equation computing it, and the entry is the last equation of the list
\* that computes the variable; the list can hold several, and a pass of
\* solve_period goes through all of them, indexed or not.
C21_LastEquationIndexed ==
    mode = "full" =>
      /\ DOMAIN eq_for_var = { x \in Vars : Computing(x) # {} }
      /\ \A x \in DOMAIN eq_for_var :
           \E i \in Computing(x) :
             /\ eq_for_var[x] = equations[i]
             /\ \A j \in Computing(x) : j <= i
      /\ last.op = "solve_period" =>
           \A k \in 1 .. last.passes, i \in 1 .. Len(equations) :
             last.trace[k][i].eq = equations[i]
\* swap_closure appended an equation of a variable that kept another
\* equation, different from it, earlier in the list.
C21_Witness ==
    /\ mode = "full"
    /\ last.op = "swap_closure"
    /\ Cardinality(Computing(last.eq.var)) = 2
    /\ eq_for_var[last.eq.var] = last.eq
    /\ \E i \in Computing(last.eq.var) : equations[i] # last.eq

\* C22: the residual record computed at construction never changes: no
\* operation on the solver (swap_closure, make_exogenous, apply_shock,
\* solve_period, solve) adds, removes or modifies a (variable, period) entry.
C22_ResidualsFrozen ==
    [][mode = "full" => residuals' = residuals]_vars

\* After an operation the solver holds residuals that a new computation from
\* its present data and equations would not give.
C22_Witness ==
    /\ mode = "full"
    /\ last.op \in {"solve_period", "solve", "apply_shock", "swap_closure",
                    "make_exogenous"}
    /\ DOMAIN residuals # {}
    /\ _compute_residuals(data, equations, columns) # residuals


\* The committed updates of the last solve_period carry the stored residual
\* (zero if none) exactly when omit is false.
SolveAdds(omit) ==
    \A i \in 1 .. Len(last.log) :
      last.log[i].new =
        Add(RuleValue(last.log[i].form, last.log[i].lag, last.log[i].rhs),
            IF omit THEN 0
            ELSE ResidualGet(residuals, last.log[i].var, last.t))

\* The instance is in shock mode exactly from its first apply_shock on.
ShockEntered ==
    [][mode = "full" =>
         (shock_active' <=> (shock_active \/ last'.op = "apply_shock"))]_vars

\* The data run_reform's baseline solver holds after its solve, with the
\* residuals omitted or added.
BaselineSolved(omit) ==
    solve(data, columns, reform.equations, residuals, omit,
          reform.t_start, reform.t_end)

\* C29 as stated: shock mode is monotone; before the first apply_shock every
\* solve_period adds the stored residuals, and once apply_shock has been
\* called no later operation returns the instance to non-shock mode, so every
\* later solve omits them.  run_reform's baseline solver never receives an
\* apply_shock, so as stated its solve adds the residuals.
C29_ShockOnlyByApplyShock ==
    /\ ShockEntered
    /\ []((mode = "full" /\ last.op = "solve_period") =>
            SolveAdds(shock_active))
    /\ [](reform.done => reform.baseline_data = BaselineSolved(FALSE))

\* C29 amended: a solve_period adds the stored residuals exactly when the
\* instance is not in shock mode; the operations of the instance enter
\* shock mode at the first apply_shock and never leave it; run_reform puts
\* its baseline solver into shock mode without an apply_shock, and that
\* solver's solve omits the residuals.
C29_ShockModeMonotone ==
    /\ ShockEntered
    /\ []((mode = "full" /\ last.op = "solve_period") =>
            SolveAdds(shock_active))
    /\ [](reform.done => reform.baseline_data = BaselineSolved(TRUE))

\* A solve_period after an apply_shock that committed the bare value of an
\* equation whose variable has a nonzero residual at that period.
C29_Witness ==
    /\ mode = "full" /\ last.op = "solve_period" /\ shock_active
    /\ \E i \in 1 .. Len(last.log) :
         ResidualGet(residuals, last.log[i].var, last.t) # 0

\* A run_reform whose baseline would differ had its solve added residuals.
ReformBaselineDiffers ==
    reform.done /\ BaselineSolved(TRUE) # BaselineSolved(FALSE)


(***************************************************************************)
(* The finite-value guard of FullOBRSolver.solve_period.                   *)
(***************************************************************************)
\* The entries of the last solve_period's record: pass k, equation i.
Evaluations ==
    { <<k, i>> \in (1 .. last.passes) \X (1 .. Len(equations)) : TRUE }
\* The value the equation of an entry yields from what it found: the rule's
\* value, or NaN when the evaluation raised.
Yielded(e) ==
    LET r == Eval(e.eq.rhs, e.v, e.vkeys, e.data, columns, last.t)
    IN  IF ~r.ok THEN NaN
        ELSE NewValue(e.eq.form, _lag(e.data, columns, e.eq.var, 1, last.t),
                      r.val)
\* The entry left the values and the metric as it found them.
Untouched(e) ==
    /\ e.data_left = e.data /\ e.v_left = e.v /\ e.vkeys_left = e.vkeys
    /\ e.mc_left = e.mc

\* C30: solve_period never writes a non-finite value: when the value an
\* equation yields is NaN or infinite (also when the lag it needs is not
\* finite), the target keeps its value and the metric is not changed, and a
\* value that is finite at period t before a solve is finite after it.
C30_NeverWritesNonFinite ==
    (mode = "full" /\ last.op = "solve_period") =>
      \A ki \in Evaluations :
        /\ ~isfinite(Yielded(last.trace[ki[1]][ki[2]])) =>
             Untouched(last.trace[ki[1]][ki[2]])
        /\ \A x \in columns :
             isfinite(last.trace[ki[1]][ki[2]].data[x][last.t]) =>
               isfinite(last.trace[ki[1]][ki[2]].data_left[x][last.t])

\* The part of C30 the code keeps: a non-finite yield leaves the values and
\* the metric untouched.
NonFiniteYieldSkipped ==
    (mode = "full" /\ last.op = "solve_period") =>
      \A ki \in Evaluations :
        ~isfinite(Yielded(last.trace[ki[1]][ki[2]])) =>
          Untouched(last.trace[ki[1]][ki[2]])

\* A solve_period in which an equation found a finite value at period t
\* under its target and left an infinite one.
InfiniteWritten ==
    /\ mode = "full" /\ last.op = "solve_period"
    /\ \E ki \in Evaluations :
         \E x \in columns :
           /\ isfinite(last.trace[ki[1]][ki[2]].data[x][last.t])
           /\ isinf(last.trace[ki[1]][ki[2]].data_left[x][last.t])

(***************************************************************************)
(* The two period solvers side by side.                                    *)
(***************************************************************************)
\* The group list that makes the updates of an equation list in its order:
\* one group per equation.
GroupsOf(eqs) == [i \in 1 .. Len(eqs) |-> <<eqs[i]>>]
\* solver.solve_period started from the values the last
\* FullOBRSolver.solve_period started from, with the same arguments.
DirectFromSame ==
    direct_solve_period(last.trace[1][1].data, GroupsOf(equations), last.t,
                        last.max_iter, last.tol)
\* The last FullOBRSolver.solve_period made, with residuals inactive, the
\* updates a group list makes: every equation evaluated to a finite value
\* of a column, from operands a group reads the same way.
SameUpdates ==
    /\ mode = "full" /\ last.op = "solve_period"
    /\ last.t >= 1 /\ Len(equations) >= 1
    /\ \/ shock_active
       \/ \A i \in 1 .. Len(equations) :
            ResidualGet(residuals, equations[i].var, last.t) = 0
    /\ \A i \in 1 .. Len(equations) :
         equations[i].rhs.op \in {"const", "var", "lag"}
    /\ \A ki \in Evaluations :
         /\ last.trace[ki[1]][ki[2]].ok
         /\ last.trace[ki[1]][ki[2]].eq.var \in columns
         /\ isfinite(Yielded(last.trace[ki[1]][ki[2]]))
\* Every update replaced a finite value that is not negligible, and no
\* variable has two equations.
FromNonZero ==
    /\ \A ki \in Evaluations :
         /\ isfinite(last.trace[ki[1]][ki[2]].v[last.trace[ki[1]][ki[2]].eq.var])
         /\ NonNegligible(
              last.trace[ki[1]][ki[2]].v[last.trace[ki[1]][ki[2]].eq.var])
    /\ \A x \in Vars : Cardinality(Computing(x)) <= 1
\* The direct solver returned r.ret and left r.data where the full solver
\* returned last.ret and left data.
SameOutcome(r) ==
    /\ r.ret = last.ret
    /\ \A x \in Vars : r.data[x][last.t] = data[x][last.t]

\* C26 as stated: started from the same values at period t, with an
\* equation list and a group list that perform the same updates in the same
\* order and with residuals inactive, FullOBRSolver.solve_period and
\* solver.solve_period return the same iteration count and leave the same
\* values at period t.
C26_SameCountAndValues ==
    SameUpdates => SameOutcome(DirectFromSame)

\* C26 amended: the same holds when moreover every value an update replaces
\* is finite and not negligible and no variable has two equations; the two
\* convergence metrics differ otherwise.
C26_SameFromNonZero ==
    (SameUpdates /\ FromNonZero) => SameOutcome(DirectFromSame)

\* A solve of two passes whose first pass changed a value, under the
\* conditions of the amended statement.
C26_Witness ==
    /\ SameUpdates /\ FromNonZero
    /\ last.passes >= 2
    /\ \E x \in Vars : last.trace[1][1].data[x][last.t] # data[x][last.t]

(***************************************************************************)
(* Date dummies, trends and base-period lookups.                           *)
(***************************************************************************)
\* Whether quarter a <op> quarter b holds, on the quarters' ordinals.
QuarterHolds(op, a, b) ==
    CASE op = "=" -> a = b
      [] op = "<>" -> a # b
      [] op = ">=" -> a >= b
      [] op = "<=" -> a <= b
      [] op = ">" -> a > b
      [] op = "<" -> a < b
SixOperators == {"=", "<>", ">=", "<=", ">", "<"}
\* The position of the quarter of a source term in the solver's index.
IndexOf(m) == get_loc(index, Period(<<m.year, m.q>>).ordinal)
\* The value the dummy of the last evaluation has by its date condition.
DummyValue ==
    IF QuarterHolds(last.src.op, index[last.t],
                    Period(<<last.src.year, last.src.qq>>).ordinal)
    THEN last.src.true_val ELSE last.src.false_val

\* C23: a transpiled @recode(@date <op> @dateval(Q), a, b) evaluates at
\* period t to a if quarter(t) <op> Q holds and to b otherwise, for each of
\* the six operators and in identity initialization, residual computation
\* and period solving.
C23_RecodeByDate ==
    (mode = "term" /\ last.op = "_recode" /\ last.src.op \in SixOperators
       /\ last.src.qq \in 1 .. 4) =>
      /\ last.ret.ok
      /\ last.ret.val = IntArg(DummyValue)

\* What the dummy evaluates to: by its date condition in solve_period
\* except for <>, which gives b; in the other two contexts an exception or a.
RecodeEvaluation ==
    (mode = "term" /\ last.op = "_recode" /\ last.src.op \in SixOperators
       /\ last.src.qq \in 1 .. 4) =>
      IF last.ctx = "solve_period"
      THEN /\ last.ret.ok
           /\ last.ret.val = IntArg(IF last.src.op = "<>"
                                    THEN last.src.false_val ELSE DummyValue)
      ELSE last.ret.ok => last.ret.val = IntArg(last.src.true_val)

\* C24: the trend term at period t with base quarter B evaluates to
\* t - index_of(B), for Variables.trend and for a transpiled @TREND(B)
\* evaluated by FullOBRSolver.solve_period.
C24_TrendFromBase ==
    (mode = "term" /\ last.op \in {"_trend", "trend"}
       /\ last.ctx \in {"Variables", "solve_period"}
       /\ IndexOf(last.src).ok) =>
      /\ last.ret.ok
      /\ last.ret.val = IntArg(last.t - IndexOf(last.src).val)

\* What the trend term evaluates to: Variables.trend as stated; the
\* transpiled call raises in solve_period and gives 0.0 in the other two
\* contexts.
TrendEvaluation ==
    (mode = "term" /\ last.op \in {"_trend", "trend"}
       /\ IndexOf(last.src).ok) =>
      CASE last.ctx = "Variables" ->
             /\ last.ret.ok
             /\ last.ret.val = IntArg(last.t - IndexOf(last.src).val)
        [] last.ctx = "solve_period" -> ~last.ret.ok
        [] OTHER -> last.ret.ok /\ last.ret.val = IntArg(0)

\* C25: in full-system mode @elem(VAR, Q) evaluates, at every period, to the
\* value of VAR at quarter Q in the solver's data, for every variable the
\* solver holds, also one missing from the loaded dataset and filled in
\* during initialization.
C25_ElemIsDataAtQuarter ==
    (mode = "term" /\ last.op = "_elem" /\ last.src.var \in columns
       /\ IndexOf(last.src).ok) =>
      /\ last.ret.ok
      /\ last.ret.val = IntArg(data[last.src.var][IndexOf(last.src).val])

\* What the lookup evaluates to: the base value taken from the loaded
\* dataset, NaN for a (variable, quarter) that had no value in it.
ElemEvaluation ==
    (mode = "term" /\ last.op = "_elem") =>
      /\ last.ret.ok
      /\ last.ret.val =
           IntArg(IF <<last.src.var, <<last.src.year, last.src.q>>>>
                       \in DOMAIN base_values
                  THEN data[last.src.var][IndexOf(last.src).val]
                  ELSE NaN)

\* A lookup of a variable that initialization filled in at the quarter.
ElemOfFilledIn ==
    /\ mode = "term" /\ last.op = "_elem" /\ IndexOf(last.src).ok
    /\ isfinite(data[last.src.var][IndexOf(last.src).val])
    /\ isnan(last.ret.val.n)


(***************************************************************************)
(* _initialize_historical on its own (full_solver.py 219-263): a dataset   *)
(* that knows some variables of a chain of identities, the missing ones    *)
(* added as all-NaN columns by _initialize_missing_variables.              *)
(***************************************************************************)
\* (none of them a variable with a starting value of its own, lines 135-217)
LinkNames == <<"PGDP", "GDPM", "CGG", "DINV", "CONS", "XGS", "MGS">>
LinkVars == {LinkNames[i] : i \in 1 .. Len(LinkNames)}
\* LinkNames[i + 1] = LinkNames[i] + 1, for i = 1 .. n.
Link(i) == Bare(LinkNames[i + 1], Cur(LinkNames[i], 1))
Forward(n) == [i \in 1 .. n |-> Link(i)]
Reversed(n) == [i \in 1 .. n |-> Link(n + 1 - i)]
\* The same chain below a behavioural equation, which the passes skip.
Guarded(n) == <<Dlog("PGDP", Const(1))>> \o Reversed(n)
LinkLists ==
    {Forward(6), Reversed(6), Reversed(5), Reversed(3), Guarded(6), Guarded(2)}
\* The loaded columns hold c from period `from` on.
Known(c, from) == [t \in Periods |-> IF t >= from THEN c ELSE NaN]
History(known, c, from) ==
    [x \in LinkVars |-> IF x \in known THEN Known(c, from) ELSE Series(NaN)]

HistoryInit ==
    /\ mode = "init"
    /\ index = DataIndex
    /\ names = {}
    /\ vdata = NoData
    /\ groups = <<>>
    /\ run = NoRun
    /\ reform = NoReform
    /\ last = NoLast
    /\ nops = 0
    /\ residuals = <<>>
    /\ shock_active = FALSE
    /\ baseline = NoData
    /\ exo = {}
    /\ \E eqs \in LinkLists, known \in SUBSET LinkVars, c \in {1, 2},
          from \in {0, 1} :
         /\ equations = eqs
         /\ eq_for_var = _build_equation_index(eqs)
         /\ columns = InitColumns(known, eqs)
         /\ data = History(known, c, from)
         /\ base_values = _extract_base_values(History(known, c, from), known)

\* self._initialize_historical() of __init__ (line 45).
InitializeHistorical ==
    /\ mode = "init"
    /\ nops = 0
    /\ data' = _initialize_historical(data, equations, columns)
    /\ last' = [op |-> "_initialize_historical", before |-> data]
    /\ nops' = nops + 1
    /\ UNCHANGED <<mode, index, names, vdata, groups, run, reform, columns,
                   equations, eq_for_var, residuals, shock_active, baseline,
                   exo, base_values>>

HistoryNext == InitializeHistorical
HistorySpec == HistoryInit /\ [][HistoryNext]_vars

\* C27: after the initialization no identity equation is left whose target
\* is undefined at a period where its RHS evaluates to a finite number, and
\* no value that was finite before the initialization has changed.
Initialized == mode = "init" /\ last.op = "_initialize_historical"
RhsNow(eq, t) ==
    Eval(eq.rhs, PassStart(data, columns, t).v, columns, data, columns, t)
Resolvable(eq, t) ==
    /\ ~IsBehavioral(eq)
    /\ isnan(_get(data, columns, _extract_lhs_var(eq), t))
    /\ RhsNow(eq, t).ok
    /\ isfinite(RhsNow(eq, t).val)
FiniteKept ==
    \A x \in columns, t \in Periods :
        isfinite(last.before[x][t]) => data[x][t] = last.before[x][t]
C27_NothingResolvableLeft ==
    Initialized =>
        /\ \A i \in 1 .. Len(equations), t \in Periods :
               ~Resolvable(equations[i], t)
        /\ FiniteKept


(***************************************************************************)
(* parse_equation and parse_model_file (transpiler.py 255-336).  The file  *)
(* content is the sequence of its physical lines, content.split("\n").     *)
(***************************************************************************)
\* str.upper(), str.count(ch), sub in s, s.split(ch)[0], s.split(ch, 1)[1]
upper(s) ==
    [k \in DOMAIN s |->
        IF s[k] \in Range(LowerSeq)
        THEN UpperSeq[CHOOSE j \in DOMAIN LowerSeq : LowerSeq[j] = s[k]]
        ELSE s[k]]
count(s, ch) == Cardinality({k \in DOMAIN s : s[k] = ch})
contains(s, sub) == \E i \in 1 .. Len(s) : StartsWith(s, i, sub)
BeforeFirst(s, ch) ==
    IF ch \in Range(s) THEN SubSeq(s, 1, Span(s, 1, Range(s) \ {ch}) - 1) ELSE s
AfterFirst(s, ch) == SubSeq(s, Span(s, 1, Range(s) \ {ch}) + 1, Len(s))

T_quote == <<"'">>
T_add == <<"@", "A", "D", "D">>
T_dlog == <<"d", "l", "o", "g", "(">>
T_d == <<"d", "(">>

\* lines 280-286
EquationType(line, lhs, rhs) ==
    IF "/" \in Range(lhs) THEN "growth_rate"
    ELSE IF contains(lower(line), T_dlog) \/ contains(lower(rhs), T_d)
         THEN "ecm"
    ELSE "identity"

\* lines 272-297, on the line without its inline comment
ParsedEquation(line) ==
    [ok |-> TRUE,
     lhs |-> strip(BeforeFirst(line, "=")),
     rhs |-> strip(AfterFirst(line, "=")),
     original |-> line,
     equation_type |-> EquationType(line, strip(BeforeFirst(line, "=")),
                                    strip(AfterFirst(line, "="))),
     python_expr |-> transpile(strip(AfterFirst(line, "=")))]
None == [ok |-> FALSE]
\* lines 262-270
Uncommented(line) == strip(BeforeFirst(line, "'"))
ParseUncommented(line) ==
    IF line = <<>> \/ "=" \notin Range(line) THEN None
    ELSE IF contains(upper(line), T_add) THEN None
    ELSE ParsedEquation(line)
parse_equation(line) ==
    IF strip(line) = <<>> \/ StartsWith(strip(line), 1, T_quote) THEN None
    ELSE ParseUncommented(Uncommented(strip(line)))

\* lines 325-329: the line is added to current; balanced text is a statement.
Joined(st, current) ==
    IF count(current, "(") = count(current, ")")
    THEN [current |-> <<>>, lines |-> Append(st.lines, strip(current))]
    ELSE [current |-> current, lines |-> st.lines]
\* lines 317-324: a comment line is skipped, or included without its mark.
JoinLine(st, line, include_behavioral) ==
    IF StartsWith(line, 1, T_quote)
    THEN IF include_behavioral /\ (StartsWith(line, 1, T_quote \o T_dlog)
                                   \/ StartsWith(line, 1, T_quote \o T_d))
         THEN Joined(st, st.current \o <<" ">> \o Tail(line))
         ELSE st
    ELSE Joined(st, st.current \o <<" ">> \o line)
\* for line in content.split("\n") (line 316)
RECURSIVE JoinLines(_, _, _, _)
JoinLines(st, content, i, include_behavioral) ==
    IF i > Len(content) THEN st
    ELSE JoinLines(JoinLine(st, strip(content[i]), include_behavioral),
                   content, i + 1, include_behavioral)
\* for line in lines: eq = parse_equation(line); if eq: append (331-334)
RECURSIVE ParseLines(_, _, _)
ParseLines(lines, i, eqs) ==
    IF i > Len(lines) THEN eqs
    ELSE ParseLines(lines, i + 1,
                    IF parse_equation(lines[i]).ok
                    THEN Append(eqs, parse_equation(lines[i])) ELSE eqs)
parse_model_file(content, include_behavioral) ==
    ParseLines(JoinLines([current |-> <<>>, lines |-> <<>>], content, 1,
                         include_behavioral).lines, 1, <<>>)

\* Physical lines of a model file.
L_identity == <<"Y", " ", "=", " ", "X">>
L_open == <<"Z", " ", "=", " ", "(", "X">>
L_close == <<" ", "+", " ", "1", ")">>
L_note == <<"'", "n", "o", "t", "e">>
L_behavioral == <<"'", "d", "(", "Y", ")", " ", "=", " ", "X">>
L_text == <<"M", "O", "D", "E", "L">>
L_add == <<"Y", " ", "=", " ", "X", " ", "@", "A", "D", "D">>
L_inline == <<"W", "/", "X", " ", "=", " ", "2", " ", "'", "c">>
FileLines ==
    {L_identity, L_open, L_close, L_note, L_behavioral, L_text, L_add, L_inline}
MaxLines == 3
ModelFiles == UNION {[1 .. n -> FileLines] : n \in 1 .. MaxLines}

ParseInit ==
    /\ mode = "parse"
    /\ index = DataIndex
    /\ names = {}
    /\ run = NoRun
    /\ reform = NoReform
    /\ last = NoLast
    /\ nops = 0
    /\ vdata = NoData
    /\ groups = <<>>
    /\ InitFull(NoData, Vars, <<>>)

\* parse_model_file(filepath, include_behavioral) on a file of these lines
ParseModelFile(content, include_behavioral) ==
    /\ mode = "parse" /\ nops = 0
    /\ last' = [op |-> "parse_model_file", content |-> content,
                include_behavioral |-> include_behavioral,
                ret |-> parse_model_file(content, include_behavioral)]
    /\ nops' = nops + 1
    /\ UNCHANGED <<mode, index, names, fullVars, vdata, groups, run, reform>>

ParseNext ==
    \E content \in ModelFiles, include_behavioral \in BOOLEAN :
        ParseModelFile(content, include_behavioral)
ParseSpec == ParseInit /\ [][ParseNext]_vars

\* The statements of a file: the lines that are not skipped, joined until
\* the parentheses balance, the last one ending with the file.
JoinedAll(content, include_behavioral) ==
    JoinLines([current |-> <<>>, lines |-> <<>>], content, 1,
              include_behavioral)
Statements(content, include_behavioral) ==
    JoinedAll(content, include_behavioral).lines
    \o (IF JoinedAll(content, include_behavioral).current = <<>> THEN <<>>
        ELSE <<strip(JoinedAll(content, include_behavioral).current)>>)
\* A statement of the form LHS = RHS, its trailing comment aside.
HasForm(statement) == "=" \in Range(Uncommented(statement))
FormStatements(content, include_behavioral) ==
    SelectSeq(Statements(content, include_behavioral), HasForm)
SameSides(ret, statements) ==
    /\ Len(ret) = Len(statements)
    /\ \A i \in 1 .. Len(ret) :
         /\ ret[i].lhs = strip(BeforeFirst(Uncommented(statements[i]), "="))
         /\ ret[i].rhs = strip(AfterFirst(Uncommented(statements[i]), "="))
Parsed == mode = "parse" /\ last.op = "parse_model_file"

\* C28: parse_model_file returns, in file order, one equation for every
\* statement of the form LHS = RHS that the joining of the lines that are
\* not skipped gives, and nothing for any other statement.
C28_OneEquationPerStatement ==
    Parsed =>
        SameSides(last.ret,
                  FormStatements(last.content, last.include_behavioral))

====
